---- MODULE Spec2Model ----
\* A model of the triangular arbitrage bot: rate calculators, indicator,
\* slippage estimator, trader, strategy (coordinator) and strategy runner.
EXTENDS Integers, Sequences, FiniteSets, TLC

\* ------------------------------------------------------------------ bounds

\* significant digits of the decimal context (Python's default is 28; the
\* model keeps the same round-half-even arithmetic at a smaller precision)
Prec == 5

\* how many times start_arb_loop may get past its guard in one behaviour
MaxLoops == 2

\* how many iterations of the runner's polling loop one behaviour holds
MaxTicks == 3

\* how many times one indicator is updated when it is called on its own
MaxUpdates == 2

\* how many levels one side of a book holds when the walk is called on its own
MaxLevels == 2

\* ------------------------------------------------- decimal.Decimal values
\* A Decimal is <<c, e>>, the value c * 10^e, with c not divisible by 10
\* (zero is <<0, 0>>), so that equal values are equal tuples.

RECURSIVE Pow10(_)
Pow10(n) == IF n <= 0 THEN 1 ELSE 10 * Pow10(n - 1)

RECURSIVE NDigits(_)
NDigits(c) == IF c < 10 THEN 1 ELSE 1 + NDigits(c \div 10)

Abs(x) == IF x < 0 THEN -x ELSE x

RECURSIVE DecNorm(_, _)
DecNorm(c, e) ==
    IF c = 0 THEN <<0, 0>>
    ELSE IF c % 10 = 0 THEN DecNorm(c \div 10, e + 1)
    ELSE <<c, e>>

\* the magnitude c * 10^e (sticky: nonzero digits below c were dropped)
\* rounded half-even to Prec significant digits
DecRound(c, sticky, e) ==
    LET k == NDigits(c) - Prec IN
    IF k <= 0 THEN <<c, e>>
    ELSE LET p    == Pow10(k)
             q    == c \div p
             r    == c % p
             half == 5 * Pow10(k - 1)
             up   == \/ r > half
                     \/ r = half /\ sticky
                     \/ r = half /\ ~sticky /\ q % 2 = 1
         IN <<IF up THEN q + 1 ELSE q, e + k>>

DecSigned(neg, m) == DecNorm(IF neg THEN -m[1] ELSE m[1], m[2])

DecAdd(a, b) ==
    LET e == IF a[2] < b[2] THEN a[2] ELSE b[2]
        c == a[1] * Pow10(a[2] - e) + b[1] * Pow10(b[2] - e)
    IN DecSigned(c < 0, DecRound(Abs(c), FALSE, e))

DecNeg(a) == <<-a[1], a[2]>>

DecSub(a, b) == DecAdd(a, DecNeg(b))

\* the product is formed in two halves where it would not fit 32-bit
\* integers
DecMul(a, b) ==
    LET x == Abs(a[1])
        y == Abs(b[1])
        neg == (a[1] < 0) # (b[1] < 0)
        e == a[2] + b[2]
    IN IF NDigits(x) + NDigits(y) <= 9
       THEN DecSigned(neg, DecRound(x * y, FALSE, e))
       ELSE LET xh == x \div 1000
                xl == x % 1000
                lo == xl * y
                t  == xh * y + (lo \div 1000)
            IN IF NDigits(t) <= Prec
               THEN DecSigned(neg, DecRound(t * 1000 + (lo % 1000), FALSE, e))
               ELSE DecSigned(neg, DecRound(t, (lo % 1000) # 0, e + 3))

\* long division, one digit a step, until Prec + 1 digits or an exact end
RECURSIVE DecLongDiv(_, _, _, _)
DecLongDiv(q, r, d, e) ==
    IF r = 0 \/ (q # 0 /\ NDigits(q) > Prec)
    THEN DecRound(q, r # 0, e)
    ELSE DecLongDiv(q * 10 + ((r * 10) \div d), (r * 10) % d, d, e - 1)

DecDiv(a, b) ==
    LET x == Abs(a[1])
        y == Abs(b[1])
        neg == (a[1] < 0) # (b[1] < 0)
    IN DecSigned(neg, DecLongDiv(x \div y, x % y, y, a[2] - b[2]))

DecLt(a, b) == DecSub(a, b)[1] < 0

DecZero == <<0, 0>>
DecOne == <<1, 0>>

\* ------------------------------------------------------- program constants

\* ExmoExchange.fees
Fees == [maker |-> <<2, -3>>, taker |-> <<2, -3>>]

\* the rate offset the indicator gives the limit calculator, Decimal('0.0005')
RateOffset == <<5, -4>>

None == [none |-> TRUE]

\* a callable that can be registered as a signal handler
Handler(name) == [handler |-> name]

\* a pair 'A_B' is <<"A", "B">>
Pair(a, b) == <<a, b>>

PairAndRate(pair, calc_rate, order_rate, side) ==
    [pair |-> pair, calc_rate |-> calc_rate, order_rate |-> order_rate, side |-> side]

Order(id, exch_order_id, opp_id, pair, quantity, price, side, type, status) ==
    [id |-> id, exch_order_id |-> exch_order_id, triarb_opportunity_id |-> opp_id,
     pair |-> pair, quantity |-> quantity, price |-> price, side |-> side,
     type |-> type, status |-> status]

\* ------------------------------------------------------- rate calculators
\* tickers: pair -> [buy_price, sell_price]

\* the limit calculator with order rates offset outward from the spread
Limit_get_pair_and_rate_outward(tickers, fee, rate_offset, curr_a, curr_b) ==
    LET pair_ab == Pair(curr_a, curr_b)
        pair_ba == Pair(curr_b, curr_a)
    IN IF pair_ab \in DOMAIN tickers
       THEN PairAndRate(pair_ab,
                DecDiv(DecDiv(DecSub(DecOne, fee), tickers[pair_ab].buy_price),
                       DecAdd(DecOne, rate_offset)),
                DecMul(tickers[pair_ab].buy_price, DecSub(DecOne, rate_offset)),
                "BUY")
       ELSE IF pair_ba \in DOMAIN tickers
       THEN PairAndRate(pair_ba,
                DecMul(DecMul(DecSub(DecOne, fee), tickers[pair_ba].sell_price),
                       DecSub(DecOne, rate_offset)),
                DecMul(tickers[pair_ba].sell_price, DecAdd(DecOne, rate_offset)),
                "SELL")
       ELSE None

\* the limit calculator whose calc_rate leaves the fee out
Limit_get_pair_and_rate_no_fee(tickers, fee, rate_offset, curr_a, curr_b) ==
    LET pair_ab == Pair(curr_a, curr_b)
        pair_ba == Pair(curr_b, curr_a)
    IN IF pair_ab \in DOMAIN tickers
       THEN PairAndRate(pair_ab,
                DecDiv(DecDiv(DecOne, tickers[pair_ab].buy_price),
                       DecAdd(DecOne, rate_offset)),
                DecMul(tickers[pair_ab].buy_price, DecAdd(DecOne, rate_offset)),
                "BUY")
       ELSE IF pair_ba \in DOMAIN tickers
       THEN PairAndRate(pair_ba,
                DecMul(DecMul(DecOne, tickers[pair_ba].sell_price),
                       DecSub(DecOne, rate_offset)),
                DecMul(tickers[pair_ba].sell_price, DecSub(DecOne, rate_offset)),
                "SELL")
       ELSE None

\* LimitOrderArbCalculator.get_pair_and_rate
Limit_get_pair_and_rate(tickers, fee, rate_offset, curr_a, curr_b) ==
    LET pair_ab == Pair(curr_a, curr_b)
        pair_ba == Pair(curr_b, curr_a)
    IN IF pair_ab \in DOMAIN tickers
       THEN PairAndRate(pair_ab,
                DecDiv(DecDiv(DecSub(DecOne, fee), tickers[pair_ab].buy_price),
                       DecAdd(DecOne, rate_offset)),
                DecMul(tickers[pair_ab].buy_price, DecAdd(DecOne, rate_offset)),
                "BUY")
       ELSE IF pair_ba \in DOMAIN tickers
       THEN PairAndRate(pair_ba,
                DecMul(DecMul(DecSub(DecOne, fee), tickers[pair_ba].sell_price),
                       DecSub(DecOne, rate_offset)),
                DecMul(tickers[pair_ba].sell_price, DecSub(DecOne, rate_offset)),
                "SELL")
       ELSE None

\* the market calculator without the inverse pair
Market_get_pair_and_rate_direct_only(tickers, fee, curr_a, curr_b) ==
    LET pair_ab == Pair(curr_a, curr_b)
    IN IF pair_ab \in DOMAIN tickers
       THEN PairAndRate(pair_ab,
                DecDiv(DecSub(DecOne, fee), tickers[pair_ab].sell_price),
                tickers[pair_ab].sell_price,
                "BUY")
       ELSE None

\* the market calculator taking each price from its own side of the spread
Market_get_pair_and_rate_same_side(tickers, fee, curr_a, curr_b) ==
    LET pair_ab == Pair(curr_a, curr_b)
        pair_ba == Pair(curr_b, curr_a)
    IN IF pair_ab \in DOMAIN tickers
       THEN PairAndRate(pair_ab,
                DecDiv(DecSub(DecOne, fee), tickers[pair_ab].buy_price),
                tickers[pair_ab].buy_price,
                "BUY")
       ELSE IF pair_ba \in DOMAIN tickers
       THEN PairAndRate(pair_ba,
                DecMul(DecSub(DecOne, fee), tickers[pair_ba].sell_price),
                tickers[pair_ba].sell_price,
                "SELL")
       ELSE None

Market_get_pair_and_rate(tickers, fee, curr_a, curr_b) ==
    LET pair_ab == Pair(curr_a, curr_b)
        pair_ba == Pair(curr_b, curr_a)
    IN IF pair_ab \in DOMAIN tickers
       THEN PairAndRate(pair_ab,
                DecDiv(DecSub(DecOne, fee), tickers[pair_ab].sell_price),
                tickers[pair_ab].sell_price,
                "BUY")
       ELSE IF pair_ba \in DOMAIN tickers
       THEN PairAndRate(pair_ba,
                DecMul(DecSub(DecOne, fee), tickers[pair_ba].buy_price),
                tickers[pair_ba].buy_price,
                "SELL")
       ELSE None

\* the calculator TriangularArbitrageIndicator.__init__ picks for the order type
get_pair_and_rate(type, tickers, curr_a, curr_b) ==
    IF type = "MARKET"
    THEN Market_get_pair_and_rate(tickers, Fees.maker, curr_a, curr_b)
    ELSE Limit_get_pair_and_rate(tickers, Fees.taker, RateOffset, curr_a, curr_b)

\* ------------------------------------------------------------------- state

VARIABLES
    paper_trading,            \* TriangularArbitrageTrader.paper_trading
    order_type,               \* TriangularArbitrageTrader.order_type (ORDER_TYPE)
    initial_amount,           \* trader fields
    pairs_iter,               \* iter([pair1, pair2, pair3]): the list and the position
    triarb_opp_id,
    current_pair,
    cur_pair_idx,
    current_order,
    current_acquired_curr,
    current_acquired_amount,
    order_update_handler,     \* TRUE: Strategy.order_update_handler is registered
    signal_handler,           \* the indicators' _signal_handler: None or a handler
    arb_opps,                 \* per indicator (quote currency): path -> opportunity
    triarb_order,             \* rows of table triarb_order, rowid = index
    triarb_opportunity,       \* rows of table triarb_opportunity
    exch_orders,              \* the exchange's orders, order id = index
    shutdown_flag,            \* StrategyRunner.shutdown_flag
    runner,                   \* where the runner thread is
    ticks,                    \* polling iterations so far
    loops,                    \* loops started so far
    cb_log,                   \* every Order handed to the order-update callback
    last,                     \* the last call: what it was, what it did
    probe                     \* a pure function's arguments and result

vars == <<paper_trading, order_type, initial_amount, pairs_iter, triarb_opp_id,
          current_pair, cur_pair_idx, current_order, current_acquired_curr,
          current_acquired_amount, order_update_handler, signal_handler, arb_opps,
          triarb_order, triarb_opportunity, exch_orders, shutdown_flag, runner,
          ticks, loops, cb_log, last, probe>>

NoFault == [call |-> "none", nth |-> 0, kind |-> "none"]

\* the program's state as one record, with the inputs of the call under way:
\* fault (which exchange call fails, and how) and fill (what the exchange does
\* with an order the moment it accepts it)
World(op, fault, fill) ==
    [paper_trading |-> paper_trading, order_type |-> order_type,
     initial_amount |-> initial_amount, pairs_iter |-> pairs_iter,
     triarb_opp_id |-> triarb_opp_id, current_pair |-> current_pair,
     cur_pair_idx |-> cur_pair_idx, current_order |-> current_order,
     current_acquired_curr |-> current_acquired_curr,
     current_acquired_amount |-> current_acquired_amount,
     order_update_handler |-> order_update_handler,
     signal_handler |-> signal_handler, arb_opps |-> arb_opps,
     triarb_order |-> triarb_order, triarb_opportunity |-> triarb_opportunity,
     exch_orders |-> exch_orders, cb_log |-> cb_log,
     fault |-> fault, fill |-> fill, tickers |-> <<>>, order_book |-> <<>>,
     last |-> [op |-> op, raised |-> "none", events |-> <<>>]]

\* the trader's fields
TraderState ==
    [current_order |-> current_order, current_pair |-> current_pair,
     cur_pair_idx |-> cur_pair_idx, pairs_iter |-> pairs_iter,
     triarb_opp_id |-> triarb_opp_id, initial_amount |-> initial_amount,
     current_acquired_curr |-> current_acquired_curr,
     current_acquired_amount |-> current_acquired_amount]

Commit(w) ==
    /\ initial_amount' = w.initial_amount
    /\ pairs_iter' = w.pairs_iter
    /\ triarb_opp_id' = w.triarb_opp_id
    /\ current_pair' = w.current_pair
    /\ cur_pair_idx' = w.cur_pair_idx
    /\ current_order' = w.current_order
    /\ current_acquired_curr' = w.current_acquired_curr
    /\ current_acquired_amount' = w.current_acquired_amount
    /\ arb_opps' = w.arb_opps
    /\ triarb_order' = w.triarb_order
    /\ triarb_opportunity' = w.triarb_opportunity
    /\ exch_orders' = w.exch_orders
    /\ cb_log' = w.cb_log
    /\ last' = w.last

Emit(w, e) == [w EXCEPT !.last.events = Append(@, e)]

Raise(w, kind) == [w EXCEPT !.last.raised = kind]

Raised(w) == w.last.raised # "none"

EventsOf(events, name) == SelectSeq(events, LAMBDA e : e.ev = name)

\* the exchange call `name` now being made is the one the fault input fails
FaultHits(w, name) ==
    /\ w.fault.call = name
    /\ w.fault.nth = Len(EventsOf(w.last.events, name)) + 1

\* ---------------------------------------------------------------- exchange

\* ExmoExchange.place_order behind place_limit_buy, place_limit_sell,
\* place_market_buy_total and place_market_sell: any failure is re-raised as
\* ExmoError, a success returns the exchange's order id
place_order(w, kind, pair, quantity, price) ==
    LET w1 == Emit(w, [ev |-> "place", kind |-> kind, pair |-> pair,
                       quantity |-> quantity, price |-> price])
    IN IF FaultHits(w, "place")
       THEN Raise(w1, "ExmoError")
       ELSE [w1 EXCEPT !.exch_orders =
                Append(@, [kind |-> kind, pair |-> pair, quantity |-> quantity,
                           price |-> price, state |-> w.fill])]

\* ExmoExchange.get_user_open_orders: pair -> ids of the user's open orders
OpenOrdersView(orders) ==
    [p \in {orders[i].pair : i \in {j \in DOMAIN orders : orders[j].state = "open"}} |->
        {i \in DOMAIN orders : orders[i].state = "open" /\ orders[i].pair = p}]

\* the price the exchange executes the orders of a pair at
ExecPrice(pair) ==
    IF pair = <<"BTC", "USD">> THEN <<1, 1>>
    ELSE IF pair = <<"ETH", "BTC">> THEN <<5, -1>>
    ELSE <<8, 0>>

\* in_amount of an executed order: the base currency bought, or the quote
\* currency a sale brought
ExecutedAmount(o) ==
    IF o.kind = "market_buy_total" THEN DecDiv(o.quantity, ExecPrice(o.pair))
    ELSE IF o.kind = "buy" THEN o.quantity
    ELSE DecMul(o.quantity, ExecPrice(o.pair))

\* ExmoExchange.get_order_trades: the trades of a filled order, else nothing
OrderTrades(orders, id) ==
    IF id \in DOMAIN orders /\ orders[id].state = "filled"
    THEN [in_currency |-> IF orders[id].kind \in {"buy", "market_buy_total"}
                          THEN orders[id].pair[1] ELSE orders[id].pair[2],
          in_amount |-> ExecutedAmount(orders[id])]
    ELSE None

\* ------------------------------------------------------------------ trader

\* TriangularArbitrageStrategy._persist_order, the registered callback
_persist_order(w, order) ==
    IF order.status = "PLACING"
    THEN LET row == [order EXCEPT !.id = Len(w.triarb_order) + 1]
         IN [w EXCEPT !.triarb_order = Append(@, row), !.current_order = row]
    ELSE [w EXCEPT !.triarb_order =
              [i \in DOMAIN @ |->
                  IF i = order.id
                  THEN [@[i] EXCEPT !.exch_order_id = order.exch_order_id,
                                    !.status = order.status]
                  ELSE @[i]],
          !.current_order = order]

\* lines 220-222 where the value the handler returns is dropped
_handle_order_update_discard(w) ==
    IF w.order_update_handler
    THEN LET w1 == [Emit(w, [ev |-> "callback", order |-> w.current_order,
                                 acquired_curr |-> w.current_acquired_curr,
                                 acquired_amount |-> w.current_acquired_amount])
                        EXCEPT !.cb_log = Append(@, w.current_order)]
         IN [_persist_order(w1, w.current_order) EXCEPT !.current_order = w.current_order]
    ELSE w

\* TriangularArbitrageTrader._handle_order_update
_handle_order_update(w) ==
    IF w.order_update_handler
    THEN LET w1 == [Emit(w, [ev |-> "callback", order |-> w.current_order,
                                 acquired_curr |-> w.current_acquired_curr,
                                 acquired_amount |-> w.current_acquired_amount])
                        EXCEPT !.cb_log = Append(@, w.current_order)]
         IN _persist_order(w1, w.current_order)
    ELSE w

\* lines 160-163 where every order's quantity is the amount over the rate
PlaceOrderBody_always_divides(w, pair, opp_id) ==
    LET quantity == DecDiv(w.current_acquired_amount, pair.order_rate)
        w1 == _handle_order_update(
                [w EXCEPT !.current_order =
                    Order(-1, -1, opp_id, pair.pair, quantity, pair.order_rate,
                          pair.side, w.order_type, "PLACING")])
        kind == IF w.order_type = "LIMIT"
                THEN (IF pair.side = "BUY" THEN "buy" ELSE "sell")
                ELSE (IF pair.side = "BUY" THEN "market_buy_total" ELSE "market_sell")
        w2 == place_order(w1, kind, pair.pair, quantity,
                          IF w.order_type = "LIMIT" THEN pair.order_rate ELSE DecZero)
    IN IF Raised(w2) THEN w2
       ELSE _handle_order_update(
                [w2 EXCEPT !.current_order =
                    [@ EXCEPT !.exch_order_id = Len(w2.exch_orders),
                              !.status = "OPEN"]])

\* lines 165-183 where the order is submitted before the callback sees it
PlaceOrderBody_submit_first(w, pair, opp_id) ==
    LET quantity == IF w.order_type = "LIMIT" /\ pair.side = "BUY"
                    THEN DecDiv(w.current_acquired_amount, pair.order_rate)
                    ELSE w.current_acquired_amount
        kind == IF w.order_type = "LIMIT"
                THEN (IF pair.side = "BUY" THEN "buy" ELSE "sell")
                ELSE (IF pair.side = "BUY" THEN "market_buy_total" ELSE "market_sell")
        w1 == place_order(
                [w EXCEPT !.current_order =
                    Order(-1, -1, opp_id, pair.pair, quantity, pair.order_rate,
                          pair.side, w.order_type, "PLACING")],
                kind, pair.pair, quantity,
                IF w.order_type = "LIMIT" THEN pair.order_rate ELSE DecZero)
        w2 == _handle_order_update(w1)
    IN IF Raised(w1) THEN w1
       ELSE _handle_order_update(
                [w2 EXCEPT !.current_order =
                    [@ EXCEPT !.exch_order_id = Len(w2.exch_orders),
                              !.status = "OPEN"]])

\* _place_order past its paper-trading guard
PlaceOrderBody(w, pair, opp_id) ==
    LET quantity == IF w.order_type = "LIMIT" /\ pair.side = "BUY"
                    THEN DecDiv(w.current_acquired_amount, pair.order_rate)
                    ELSE w.current_acquired_amount
        w1 == _handle_order_update(
                [w EXCEPT !.current_order =
                    Order(-1, -1, opp_id, pair.pair, quantity, pair.order_rate,
                          pair.side, w.order_type, "PLACING")])
        kind == IF w.order_type = "LIMIT"
                THEN (IF pair.side = "BUY" THEN "buy" ELSE "sell")
                ELSE (IF pair.side = "BUY" THEN "market_buy_total" ELSE "market_sell")
        w2 == place_order(w1, kind, pair.pair, quantity,
                          IF w.order_type = "LIMIT" THEN pair.order_rate ELSE DecZero)
    IN IF Raised(w2) THEN w2
       ELSE _handle_order_update(
                [w2 EXCEPT !.current_order =
                    [@ EXCEPT !.exch_order_id = Len(w2.exch_orders),
                              !.status = "OPEN"]])

_place_order(w, pair, opp_id) ==
    IF w.paper_trading THEN w ELSE PlaceOrderBody(w, pair, opp_id)

\* start_arb_loop whose guard forgets the loop in progress
start_arb_loop_no_busy_guard(w, pair1, pair2, pair3, opp_id, trading_amount) ==
    LET w0 == Emit(w, [ev |-> "start_arb_loop",
                       in_progress |-> w.current_order # None])
    IN IF w.paper_trading
       THEN w0
       ELSE _place_order(
                [w0 EXCEPT !.initial_amount = trading_amount,
                           !.current_acquired_amount = trading_amount,
                           !.pairs_iter = [seq |-> <<pair1, pair2, pair3>>, idx |-> 1],
                           !.triarb_opp_id = opp_id,
                           !.current_pair = pair1,
                           !.cur_pair_idx = @ + 1],
                pair1, opp_id)

\* start_arb_loop that places its first order in paper trading too
start_arb_loop_no_paper_guard(w, pair1, pair2, pair3, opp_id, trading_amount) ==
    LET w0 == Emit(w, [ev |-> "start_arb_loop",
                       in_progress |-> w.current_order # None])
    IN IF w.current_order # None
       THEN w0
       ELSE PlaceOrderBody(
                [w0 EXCEPT !.initial_amount = trading_amount,
                           !.current_acquired_amount = trading_amount,
                           !.pairs_iter = [seq |-> <<pair1, pair2, pair3>>, idx |-> 1],
                           !.triarb_opp_id = opp_id,
                           !.current_pair = pair1,
                           !.cur_pair_idx = @ + 1],
                pair1, opp_id)

start_arb_loop(w, pair1, pair2, pair3, opp_id, trading_amount) ==
    LET w0 == Emit(w, [ev |-> "start_arb_loop",
                       in_progress |-> w.current_order # None])
    IN IF w.paper_trading \/ w.current_order # None
       THEN w0
       ELSE _place_order(
                [w0 EXCEPT !.initial_amount = trading_amount,
                           !.current_acquired_amount = trading_amount,
                           !.pairs_iter = [seq |-> <<pair1, pair2, pair3>>, idx |-> 1],
                           !.triarb_opp_id = opp_id,
                           !.current_pair = pair1,
                           !.cur_pair_idx = @ + 1],
                pair1, opp_id)

\* _update_current_order_status that takes an order with no trades for open
_update_current_order_status_swallow(w) ==
    IF w.current_order # None /\ w.current_order.exch_order_id # -1
    THEN
      LET w1 == Emit(w, [ev |-> "get_user_open_orders"])
          open_orders == OpenOrdersView(w.exch_orders)
      IN IF FaultHits(w, "get_user_open_orders") THEN Raise(w1, w.fault.kind)
         ELSE IF /\ w.current_pair.pair \in DOMAIN open_orders
                 /\ w.current_order.exch_order_id \in open_orders[w.current_pair.pair]
         THEN w1
         ELSE
           LET w2 == Emit(w1, [ev |-> "get_order_trades",
                               order_id |-> w.current_order.exch_order_id])
               order_trades == OrderTrades(w.exch_orders, w.current_order.exch_order_id)
           IN IF FaultHits(w1, "get_order_trades") THEN Raise(w2, w.fault.kind)
              ELSE IF order_trades # None
              THEN _handle_order_update(
                     [w2 EXCEPT !.current_acquired_curr = order_trades.in_currency,
                                !.current_acquired_amount =
                                    DecMul(order_trades.in_amount,
                                           DecSub(DecOne, Fees.taker)),
                                !.current_order = [@ EXCEPT !.status = "COMPLETED"]])
              ELSE w2
    ELSE [w EXCEPT !.current_order = None]

\* lines 187-214 where an order still among the open orders is looked up in
\* the trades all the same
_update_current_order_status_no_open_check(w) ==
    IF w.current_order # None /\ w.current_order.exch_order_id # -1
    THEN
      LET w1 == Emit(w, [ev |-> "get_user_open_orders"])
          open_orders == OpenOrdersView(w.exch_orders)
      IN IF FaultHits(w, "get_user_open_orders") THEN Raise(w1, w.fault.kind)
         ELSE
           LET w2 == Emit(w1, [ev |-> "get_order_trades",
                               order_id |-> w.current_order.exch_order_id])
               order_trades == OrderTrades(w.exch_orders, w.current_order.exch_order_id)
           IN IF FaultHits(w1, "get_order_trades") THEN Raise(w2, w.fault.kind)
              ELSE IF order_trades # None
              THEN _handle_order_update(
                     [w2 EXCEPT !.current_acquired_curr = order_trades.in_currency,
                                !.current_acquired_amount =
                                    DecMul(order_trades.in_amount,
                                           DecSub(DecOne, Fees.taker)),
                                !.current_order = [@ EXCEPT !.status = "COMPLETED"]])
              ELSE Raise(w2, "Exception")
    ELSE [w EXCEPT !.current_order = None]

\* lines 187-214 where a failed open-orders query counts as no open orders
_update_current_order_status_error_as_empty(w) ==
    IF w.current_order # None /\ w.current_order.exch_order_id # -1
    THEN
      LET w1 == Emit(w, [ev |-> "get_user_open_orders"])
          open_orders == OpenOrdersView(w.exch_orders)
      IN IF /\ ~FaultHits(w, "get_user_open_orders")
            /\ w.current_pair.pair \in DOMAIN open_orders
                 /\ w.current_order.exch_order_id \in open_orders[w.current_pair.pair]
         THEN w1
         ELSE
           LET w2 == Emit(w1, [ev |-> "get_order_trades",
                               order_id |-> w.current_order.exch_order_id])
               order_trades == OrderTrades(w.exch_orders, w.current_order.exch_order_id)
           IN IF FaultHits(w1, "get_order_trades") THEN Raise(w2, w.fault.kind)
              ELSE IF order_trades # None
              THEN _handle_order_update(
                     [w2 EXCEPT !.current_acquired_curr = order_trades.in_currency,
                                !.current_acquired_amount =
                                    DecMul(order_trades.in_amount,
                                           DecSub(DecOne, Fees.taker)),
                                !.current_order = [@ EXCEPT !.status = "COMPLETED"]])
              ELSE Raise(w2, "Exception")
    ELSE [w EXCEPT !.current_order = None]

\* lines 216-218 where the order dropped for want of an exchange id is handed
\* to the callback once more
_update_current_order_status_reports_drop(w) ==
    IF w.current_order # None /\ w.current_order.exch_order_id # -1
    THEN
      LET w1 == Emit(w, [ev |-> "get_user_open_orders"])
          open_orders == OpenOrdersView(w.exch_orders)
      IN IF FaultHits(w, "get_user_open_orders") THEN Raise(w1, w.fault.kind)
         ELSE IF /\ w.current_pair.pair \in DOMAIN open_orders
                 /\ w.current_order.exch_order_id \in open_orders[w.current_pair.pair]
         THEN w1
         ELSE
           LET w2 == Emit(w1, [ev |-> "get_order_trades",
                               order_id |-> w.current_order.exch_order_id])
               order_trades == OrderTrades(w.exch_orders, w.current_order.exch_order_id)
           IN IF FaultHits(w1, "get_order_trades") THEN Raise(w2, w.fault.kind)
              ELSE IF order_trades # None
              THEN _handle_order_update(
                     [w2 EXCEPT !.current_acquired_curr = order_trades.in_currency,
                                !.current_acquired_amount =
                                    DecMul(order_trades.in_amount,
                                           DecSub(DecOne, Fees.taker)),
                                !.current_order = [@ EXCEPT !.status = "COMPLETED"]])
              ELSE Raise(w2, "Exception")
    ELSE IF w.current_order # None
         THEN [_handle_order_update(w) EXCEPT !.current_order = None]
         ELSE w

\* lines 211-214 where the order found neither open nor traded is dropped
\* before the error is raised
_update_current_order_status_drops_vanished(w) ==
    IF w.current_order # None /\ w.current_order.exch_order_id # -1
    THEN
      LET w1 == Emit(w, [ev |-> "get_user_open_orders"])
          open_orders == OpenOrdersView(w.exch_orders)
      IN IF FaultHits(w, "get_user_open_orders") THEN Raise(w1, w.fault.kind)
         ELSE IF /\ w.current_pair.pair \in DOMAIN open_orders
                 /\ w.current_order.exch_order_id \in open_orders[w.current_pair.pair]
         THEN w1
         ELSE
           LET w2 == Emit(w1, [ev |-> "get_order_trades",
                               order_id |-> w.current_order.exch_order_id])
               order_trades == OrderTrades(w.exch_orders, w.current_order.exch_order_id)
           IN IF FaultHits(w1, "get_order_trades") THEN Raise(w2, w.fault.kind)
              ELSE IF order_trades # None
              THEN _handle_order_update(
                     [w2 EXCEPT !.current_acquired_curr = order_trades.in_currency,
                                !.current_acquired_amount =
                                    DecMul(order_trades.in_amount,
                                           DecSub(DecOne, Fees.taker)),
                                !.current_order = [@ EXCEPT !.status = "COMPLETED"]])
              ELSE Raise([w2 EXCEPT !.current_order = None], "Exception")
    ELSE [w EXCEPT !.current_order = None]

\* TriangularArbitrageTrader._update_current_order_status
_update_current_order_status(w) ==
    IF w.current_order # None /\ w.current_order.exch_order_id # -1
    THEN
      LET w1 == Emit(w, [ev |-> "get_user_open_orders"])
          open_orders == OpenOrdersView(w.exch_orders)
      IN IF FaultHits(w, "get_user_open_orders") THEN Raise(w1, w.fault.kind)
         ELSE IF /\ w.current_pair.pair \in DOMAIN open_orders
                 /\ w.current_order.exch_order_id \in open_orders[w.current_pair.pair]
         THEN w1
         ELSE
           LET w2 == Emit(w1, [ev |-> "get_order_trades",
                               order_id |-> w.current_order.exch_order_id])
               order_trades == OrderTrades(w.exch_orders, w.current_order.exch_order_id)
           IN IF FaultHits(w1, "get_order_trades") THEN Raise(w2, w.fault.kind)
              ELSE IF order_trades # None
              THEN _handle_order_update(
                     [w2 EXCEPT !.current_acquired_curr = order_trades.in_currency,
                                !.current_acquired_amount =
                                    DecMul(order_trades.in_amount,
                                           DecSub(DecOne, Fees.taker)),
                                !.current_order = [@ EXCEPT !.status = "COMPLETED"]])
              ELSE Raise(w2, "Exception")
    ELSE [w EXCEPT !.current_order = None]

\* lines 137-151 of update that report the round's result the wrong way round
\* and keep the leg index
AdvanceLeg_wrong_close(w1) ==
    IF w1.current_order # None /\ w1.current_order.status = "COMPLETED"
    THEN IF w1.pairs_iter.idx < Len(w1.pairs_iter.seq)
         THEN _place_order(
                 [w1 EXCEPT !.current_pair = w1.pairs_iter.seq[w1.pairs_iter.idx + 1],
                            !.pairs_iter.idx = @ + 1,
                            !.cur_pair_idx = @ + 1],
                 w1.pairs_iter.seq[w1.pairs_iter.idx + 1], w1.triarb_opp_id)
         ELSE Emit([w1 EXCEPT !.current_order = None],
                   [ev |-> "pnl",
                    pnl |-> DecSub(w1.initial_amount, w1.current_acquired_amount),
                    curr |-> w1.current_acquired_curr])
    ELSE w1

\* lines 137-143 where the next leg spends the round's initial amount
AdvanceLeg_spends_initial(w1) ==
    IF w1.current_order # None /\ w1.current_order.status = "COMPLETED"
    THEN IF w1.pairs_iter.idx < Len(w1.pairs_iter.seq)
         THEN _place_order(
                 [w1 EXCEPT !.current_pair = w1.pairs_iter.seq[w1.pairs_iter.idx + 1],
                            !.pairs_iter.idx = @ + 1,
                            !.cur_pair_idx = @ + 1,
                            !.current_acquired_amount = w1.initial_amount],
                 w1.pairs_iter.seq[w1.pairs_iter.idx + 1], w1.triarb_opp_id)
         ELSE Emit([w1 EXCEPT !.current_order = None, !.cur_pair_idx = 0],
                   [ev |-> "pnl",
                    pnl |-> DecSub(w1.current_acquired_amount, w1.initial_amount),
                    curr |-> w1.current_acquired_curr])
    ELSE w1

\* lines 141-147 where the round is closed once its second leg is completed
AdvanceLeg_closes_early(w1) ==
    IF w1.current_order # None /\ w1.current_order.status = "COMPLETED"
    THEN IF w1.pairs_iter.idx < Len(w1.pairs_iter.seq) - 1
         THEN _place_order(
                 [w1 EXCEPT !.current_pair = w1.pairs_iter.seq[w1.pairs_iter.idx + 1],
                            !.pairs_iter.idx = @ + 1,
                            !.cur_pair_idx = @ + 1],
                 w1.pairs_iter.seq[w1.pairs_iter.idx + 1], w1.triarb_opp_id)
         ELSE Emit([w1 EXCEPT !.current_order = None, !.cur_pair_idx = 0],
                   [ev |-> "pnl",
                    pnl |-> DecSub(w1.current_acquired_amount, w1.initial_amount),
                    curr |-> w1.current_acquired_curr])
    ELSE w1

\* update after _update_current_order_status returned: the next leg, or the
\* close of the round when the iterator is exhausted (StopIteration)
AdvanceLeg(w1) ==
    IF w1.current_order # None /\ w1.current_order.status = "COMPLETED"
    THEN IF w1.pairs_iter.idx < Len(w1.pairs_iter.seq)
         THEN _place_order(
                 [w1 EXCEPT !.current_pair = w1.pairs_iter.seq[w1.pairs_iter.idx + 1],
                            !.pairs_iter.idx = @ + 1,
                            !.cur_pair_idx = @ + 1],
                 w1.pairs_iter.seq[w1.pairs_iter.idx + 1], w1.triarb_opp_id)
         ELSE Emit([w1 EXCEPT !.current_order = None, !.cur_pair_idx = 0],
                   [ev |-> "pnl",
                    pnl |-> DecSub(w1.current_acquired_amount, w1.initial_amount),
                    curr |-> w1.current_acquired_curr])
    ELSE w1

\* an exception of _update_current_order_status leaves update at once
AfterStatus(w1) == IF Raised(w1) THEN w1 ELSE AdvanceLeg(w1)

update(w) ==
    IF w.paper_trading THEN w ELSE AfterStatus(_update_current_order_status(w))

is_loop_in_progress(w) == w.current_order # None

\* --------------------------------------------------------------- indicator

\* exchange.get_currencies(), in the order the indicator iterates them
CurrencyList == <<"USD", "BTC", "ETH", "LTC">>

\* QUOTE_CURRS: one indicator per quote currency, in this order
QUOTE_CURRS == <<"USD", "BTC">>

\* TRADING_AMOUNTS
TRADING_AMOUNTS == [USD |-> DecNorm(5, 0), BTC |-> DecNorm(15, -4)]

\* PNL_MIN_LIMIT
PNL_MIN_LIMIT == DecNorm(1, 0)

PathOf(leg1, leg2, leg3) == <<leg1.pair, leg2.pair, leg3.pair>>

\* what the double loop did with one triangle that has its three legs
Evaluated(curr1, curr2, curr1_quote, curr2_curr1, quote_curr2, gain) ==
    [curr1 |-> curr1, curr2 |-> curr2,
     legs |-> <<curr1_quote, curr2_curr1, quote_curr2>>, gain |-> gain]

\* lines 85-93 where the latest positive gain is taken for the maximum
ScanGain_last_wins(curr1, curr2, curr1_quote, curr2_curr1, quote_curr2, gain, path, acc) ==
    IF DecLt(DecZero, gain)
    THEN [arb_opps |-> (path :> <<curr1_quote, curr2_curr1, quote_curr2, gain>>)
                           @@ acc.arb_opps,
          max_gain |-> gain,
          max_path |-> path,
          evaluated |-> Append(acc.evaluated,
                               Evaluated(curr1, curr2, curr1_quote, curr2_curr1,
                                         quote_curr2, gain))]
    ELSE [acc EXCEPT !.evaluated =
             Append(@, Evaluated(curr1, curr2, curr1_quote, curr2_curr1,
                                 quote_curr2, gain))]

\* lines 85-93 where a path already in the map keeps its entry
ScanGain_keep_first(curr1, curr2, curr1_quote, curr2_curr1, quote_curr2, gain, path, acc) ==
    IF DecLt(DecZero, gain)
    THEN [arb_opps |-> acc.arb_opps
                           @@ (path :> <<curr1_quote, curr2_curr1, quote_curr2, gain>>),
          max_gain |-> IF DecLt(acc.max_gain, gain) THEN gain ELSE acc.max_gain,
          max_path |-> IF DecLt(acc.max_gain, gain) THEN path ELSE acc.max_path,
          evaluated |-> Append(acc.evaluated,
                               Evaluated(curr1, curr2, curr1_quote, curr2_curr1,
                                         quote_curr2, gain))]
    ELSE [acc EXCEPT !.evaluated =
             Append(@, Evaluated(curr1, curr2, curr1_quote, curr2_curr1,
                                 quote_curr2, gain))]

\* lines 85-93: a positive gain is stored under its path and may be the new
\* maximum; evaluated is the record of the triangles the loop computed a gain for
ScanGain(curr1, curr2, curr1_quote, curr2_curr1, quote_curr2, gain, path, acc) ==
    IF DecLt(DecZero, gain)
    THEN [arb_opps |-> (path :> <<curr1_quote, curr2_curr1, quote_curr2, gain>>)
                           @@ acc.arb_opps,
          max_gain |-> IF DecLt(acc.max_gain, gain) THEN gain ELSE acc.max_gain,
          max_path |-> IF DecLt(acc.max_gain, gain) THEN path ELSE acc.max_path,
          evaluated |-> Append(acc.evaluated,
                               Evaluated(curr1, curr2, curr1_quote, curr2_curr1,
                                         quote_curr2, gain))]
    ELSE [acc EXCEPT !.evaluated =
             Append(@, Evaluated(curr1, curr2, curr1_quote, curr2_curr1,
                                 quote_curr2, gain))]

\* one (curr1, curr2) whose gain is leg2 * leg3 - leg1
ScanStep_wrong_gain(quote, curr1, curr2, curr1_quote, curr2_curr1, quote_curr2, acc) ==
    IF \/ curr1 = quote
       \/ curr1_quote = None
       \/ curr2 = quote
       \/ curr2 = curr1
       \/ curr2_curr1 = None
       \/ quote_curr2 = None
    THEN acc
    ELSE ScanGain(curr1, curr2, curr1_quote, curr2_curr1, quote_curr2,
                  DecSub(DecMul(curr2_curr1.calc_rate, quote_curr2.calc_rate),
                         curr1_quote.calc_rate),
                  PathOf(curr1_quote, curr2_curr1, quote_curr2), acc)

\* one (curr1, curr2) of the double loop, with its continue statements
ScanStep(quote, curr1, curr2, curr1_quote, curr2_curr1, quote_curr2, acc) ==
    IF \/ curr1 = quote
       \/ curr1_quote = None
       \/ curr2 = quote
       \/ curr2 = curr1
       \/ curr2_curr1 = None
       \/ quote_curr2 = None
    THEN acc
    ELSE ScanGain(curr1, curr2, curr1_quote, curr2_curr1, quote_curr2,
                  DecSub(DecMul(curr2_curr1.calc_rate, quote_curr2.calc_rate),
                         DecDiv(DecOne, curr1_quote.calc_rate)),
                  PathOf(curr1_quote, curr2_curr1, quote_curr2), acc)

\* the double loop of TriangularArbitrageIndicator.update from its k-th
\* (curr1, curr2) on; acc holds arb_opps, max_gain and max_path
RECURSIVE ScanTriangles(_, _, _, _, _)
ScanTriangles(type, tickers, quote, k, acc) ==
    LET n     == Len(CurrencyList)
        curr1 == CurrencyList[((k - 1) \div n) + 1]
        curr2 == CurrencyList[((k - 1) % n) + 1]
    IN IF k > n * n THEN acc
       ELSE ScanTriangles(type, tickers, quote, k + 1,
                ScanStep(quote, curr1, curr2,
                         get_pair_and_rate(type, tickers, curr1, quote),
                         get_pair_and_rate(type, tickers, curr2, curr1),
                         get_pair_and_rate(type, tickers, quote, curr2), acc))

\* ------------------------------------------------------- slippage estimate
\* a book level is <<price, quantity, amount>>

\* the for loop over one side of the book, from level i on
RECURSIVE WalkBook(_, _, _, _, _, _, _)
WalkBook(levels, i, quantity_total, amount_total, last_rate, amount_to_sell, side) ==
    IF i > Len(levels)
    THEN [quantity_total |-> quantity_total, amount_total |-> amount_total,
          last_rate |-> last_rate]
    ELSE LET q == DecAdd(quantity_total, levels[i][2])
             a == DecAdd(amount_total, levels[i][3])
         IN IF ~DecLt(IF side = "BUY" THEN a ELSE q, amount_to_sell)
            THEN [quantity_total |-> q, amount_total |-> a, last_rate |-> levels[i][1]]
            ELSE WalkBook(levels, i + 1, q, a, levels[i][1], amount_to_sell, side)

\* lines 237-242: the rate and the amount acquired, fee included
WeightedRate(amount_to_sell, levels, side, quantity_total, amount_total) ==
    [raised |-> FALSE, side |-> side, amount_to_sell |-> amount_to_sell,
     levels |-> levels,
     quantity_total |-> quantity_total, amount_total |-> amount_total,
     weighted_rate |->
        IF side = "BUY"
        THEN DecDiv(DecMul(DecSub(DecOne, Fees.taker), quantity_total), amount_total)
        ELSE DecDiv(DecMul(DecSub(DecOne, Fees.taker), amount_total), quantity_total),
     acquired_amount |-> IF side = "BUY" THEN quantity_total ELSE amount_total]

\* the totals after the loop without the check for depth
AdjustTotals_no_depth_check(amount_to_sell, levels, side, t) ==
    IF side = "BUY" /\ DecLt(amount_to_sell, t.amount_total)
    THEN WeightedRate(amount_to_sell, levels, side,
            DecSub(t.quantity_total,
                   DecDiv(DecSub(t.amount_total, amount_to_sell), t.last_rate)),
            amount_to_sell)
    ELSE IF side = "SELL" /\ DecLt(amount_to_sell, t.quantity_total)
    THEN WeightedRate(amount_to_sell, levels, side,
            amount_to_sell,
            DecSub(t.amount_total,
                   DecMul(DecSub(t.quantity_total, amount_to_sell), t.last_rate)))
    ELSE WeightedRate(amount_to_sell, levels, side, t.quantity_total, t.amount_total)

\* the totals after the loop with the surplus of the last level left in
AdjustTotals_no_trim(amount_to_sell, levels, side, t) ==
    IF DecLt(IF side = "BUY" THEN t.amount_total ELSE t.quantity_total, amount_to_sell)
    THEN [raised |-> TRUE, side |-> side, amount_to_sell |-> amount_to_sell,
          levels |-> levels]
    ELSE WeightedRate(amount_to_sell, levels, side, t.quantity_total, t.amount_total)

\* after the loop over the levels: not enough depth raises, a surplus of the
\* last level is cut off
AdjustTotals(amount_to_sell, levels, side, t) ==
    IF DecLt(IF side = "BUY" THEN t.amount_total ELSE t.quantity_total, amount_to_sell)
    THEN [raised |-> TRUE, side |-> side, amount_to_sell |-> amount_to_sell,
          levels |-> levels]
    ELSE IF side = "BUY" /\ DecLt(amount_to_sell, t.amount_total)
    THEN WeightedRate(amount_to_sell, levels, side,
            DecSub(t.quantity_total,
                   DecDiv(DecSub(t.amount_total, amount_to_sell), t.last_rate)),
            amount_to_sell)
    ELSE IF side = "SELL" /\ DecLt(amount_to_sell, t.quantity_total)
    THEN WeightedRate(amount_to_sell, levels, side,
            amount_to_sell,
            DecSub(t.amount_total,
                   DecMul(DecSub(t.quantity_total, amount_to_sell), t.last_rate)))
    ELSE WeightedRate(amount_to_sell, levels, side, t.quantity_total, t.amount_total)

WalkSide(amount_to_sell, levels, side) ==
    AdjustTotals(amount_to_sell, levels, side,
                 WalkBook(levels, 1, DecZero, DecZero, DecZero, amount_to_sell, side))

_get_weighted_rate(amount_to_sell, order_book, side) ==
    WalkSide(amount_to_sell,
             IF side = "BUY" THEN order_book.ask ELSE order_book.bid, side)

\* lines 186-189
RecalcResult(trading_amount, r1, r2, r3) ==
    IF r3.raised THEN [raised |-> TRUE, walks |-> <<r1, r2, r3>>]
    ELSE [raised |-> FALSE, walks |-> <<r1, r2, r3>>,
          gain |-> DecSub(DecMul(r2.weighted_rate, r3.weighted_rate),
                          DecDiv(DecOne, r1.weighted_rate)),
          gain_amount |-> DecSub(r3.acquired_amount, trading_amount)]

\* line 184, reached when the second walk did not raise
RecalcLeg3(order_book, pair3, trading_amount, r1, r2) ==
    IF r2.raised THEN [raised |-> TRUE, walks |-> <<r1, r2>>]
    ELSE RecalcResult(trading_amount, r1, r2,
            _get_weighted_rate(r2.acquired_amount, order_book[pair3.pair], pair3.side))

\* line 183 where the second walk spends the trading amount again
RecalcLeg2_unchained(order_book, pair2, pair3, trading_amount, r1) ==
    IF r1.raised THEN [raised |-> TRUE, walks |-> <<r1>>]
    ELSE RecalcLeg3(order_book, pair3, trading_amount, r1,
            _get_weighted_rate(trading_amount, order_book[pair2.pair], pair2.side))

\* line 183, reached when the first walk did not raise
RecalcLeg2(order_book, pair2, pair3, trading_amount, r1) ==
    IF r1.raised THEN [raised |-> TRUE, walks |-> <<r1>>]
    ELSE RecalcLeg3(order_book, pair3, trading_amount, r1,
            _get_weighted_rate(r1.acquired_amount, order_book[pair2.pair], pair2.side))

\* the three chained walks of _recalc_gain_with_slippage on the fetched book
RecalcGain(order_book, pair1, pair2, pair3, trading_amount) ==
    RecalcLeg2(order_book, pair2, pair3, trading_amount,
        _get_weighted_rate(trading_amount, order_book[pair1.pair], pair1.side))

\* ---------------------------------------------------------------- strategy

\* TriangularArbitrageStrategy._persist_triarb_opportunity: lastrowid is the
\* number of rows
_persist_triarb_opportunity(w, pair1, pair2, pair3, gain, type) ==
    [w EXCEPT !.triarb_opportunity =
        Append(@, [path |-> PathOf(pair1, pair2, pair3), gain |-> gain,
                   order_type |-> type])]

\* InsufficientDepth is the generic Exception of lines 209 and 230
SlippageOutcome(w1, r) ==
    IF r.raised
    THEN Raise(Emit(w1, [ev |-> "slippage", result |-> r]), "Exception")
    ELSE Emit(w1, [ev |-> "slippage", result |-> r])

\* fetches the book (the tick's order_book input) and walks it
_recalc_gain_with_slippage(w, pair1, pair2, pair3, trading_amount) ==
    IF FaultHits(w, "get_order_book")
    THEN Raise(Emit(w, [ev |-> "get_order_book",
                        pairs |-> PathOf(pair1, pair2, pair3)]), w.fault.kind)
    ELSE SlippageOutcome(Emit(w, [ev |-> "get_order_book",
                                  pairs |-> PathOf(pair1, pair2, pair3)]),
                         RecalcGain(w.order_book, pair1, pair2, pair3, trading_amount))

\* what _recalc_gain_with_slippage returned
SlippageResult(w) == w.last.events[Len(w.last.events)].result

\* lines 163-169 without the return of line 167
GateAndStart_no_gate(w2, pair1, pair2, pair3, opp_id, trading_amount) ==
    IF Raised(w2) THEN w2
    ELSE start_arb_loop(w2, pair1, pair2, pair3, opp_id, trading_amount)

\* lines 163-169: the PnL gate, then the start of the round
GateAndStart(w2, pair1, pair2, pair3, opp_id, trading_amount) ==
    IF Raised(w2) THEN w2
    ELSE IF DecLt(SlippageResult(w2).gain_amount, PNL_MIN_LIMIT) THEN w2
    ELSE start_arb_loop(w2, pair1, pair2, pair3, opp_id, trading_amount)

\* triarb_signal_handler once the opportunity is persisted
HandleSignal(w1, pair1, pair2, pair3, quote_curr) ==
    IF w1.order_type = "MARKET"
    THEN GateAndStart(
            _recalc_gain_with_slippage(w1, pair1, pair2, pair3,
                                       TRADING_AMOUNTS[quote_curr]),
            pair1, pair2, pair3, Len(w1.triarb_opportunity),
            TRADING_AMOUNTS[quote_curr])
    ELSE start_arb_loop(w1, pair1, pair2, pair3, Len(w1.triarb_opportunity),
                        TRADING_AMOUNTS[quote_curr])

triarb_signal_handler(w, pair1, pair2, pair3, gain, type, quote_curr) ==
    HandleSignal(
        _persist_triarb_opportunity(w, pair1, pair2, pair3, gain, type),
        pair1, pair2, pair3, quote_curr)

\* the call self._signal_handler(pair1, pair2, pair3, gain, order_type, quote_curr):
\* the strategy's handler, or a handler of another embedder, which only returns
SignalOpp(w, opp, quote_curr) ==
    IF w.signal_handler = Handler("triarb_signal_handler")
    THEN triarb_signal_handler(
            Emit(w, [ev |-> "signal", handler |-> w.signal_handler,
                     pair1 |-> opp[1], pair2 |-> opp[2], pair3 |-> opp[3],
                     path |-> PathOf(opp[1], opp[2], opp[3]), gain |-> opp[4],
                     order_type |-> w.order_type, quote_curr |-> quote_curr]),
            opp[1], opp[2], opp[3], opp[4], w.order_type, quote_curr)
    ELSE Emit(w, [ev |-> "signal", handler |-> w.signal_handler,
                  pair1 |-> opp[1], pair2 |-> opp[2], pair3 |-> opp[3],
                  path |-> PathOf(opp[1], opp[2], opp[3]), gain |-> opp[4],
                  order_type |-> w.order_type, quote_curr |-> quote_curr])

_signal_arbitrage(w, arb_path, quote_curr) ==
    IF w.signal_handler # None
    THEN SignalOpp(w, w.arb_opps[quote_curr][arb_path], quote_curr)
    ELSE w

\* lines 95-107: the best opportunity of the scan is signalled
ScanDone(w, quote_curr, acc) ==
    IF DecLt(DecZero, acc.max_gain)
    THEN _signal_arbitrage(
            Emit([w EXCEPT !.arb_opps[quote_curr] = acc.arb_opps],
                 [ev |-> "scan", quote_curr |-> quote_curr, tickers |-> w.tickers,
                  evaluated |-> acc.evaluated, max_gain |-> acc.max_gain]),
            acc.max_path, quote_curr)
    ELSE Emit([w EXCEPT !.arb_opps[quote_curr] = acc.arb_opps],
              [ev |-> "scan", quote_curr |-> quote_curr, tickers |-> w.tickers,
               evaluated |-> acc.evaluated, max_gain |-> acc.max_gain])

\* TriangularArbitrageIndicator.update of the indicator of quote_curr
Indicator_update(w, quote_curr) ==
    ScanDone(w, quote_curr,
             ScanTriangles(w.order_type, w.tickers, quote_curr, 1,
                           [arb_opps |-> w.arb_opps[quote_curr],
                            max_gain |-> DecZero, max_path |-> <<>>,
                            evaluated |-> <<>>]))

\* for indicator in self.indicators: indicator.update(tickers), from the i-th on;
\* an exception ends the loop
RECURSIVE UpdateIndicators(_, _)
UpdateIndicators(w, i) ==
    IF i > Len(QUOTE_CURRS) \/ Raised(w) THEN w
    ELSE UpdateIndicators(Indicator_update(w, QUOTE_CURRS[i]), i + 1)

\* line 146, unless an indicator raised
UpdateTrader(w2) ==
    IF Raised(w2) THEN w2 ELSE update(Emit(w2, [ev |-> "trader_update"]))

\* lines 136-146 without the test of is_loop_in_progress
Strategy_update_always_scans(w) ==
    IF FaultHits(w, "get_ticker")
    THEN Raise(Emit(w, [ev |-> "get_ticker"]), w.fault.kind)
    ELSE UpdateTrader(UpdateIndicators(Emit(w, [ev |-> "get_ticker"]), 1))

\* TriangularArbitrageStrategy.update
Strategy_update(w) ==
    IF ~is_loop_in_progress(w)
    THEN IF FaultHits(w, "get_ticker")
         THEN Raise(Emit(w, [ev |-> "get_ticker"]), w.fault.kind)
         ELSE UpdateTrader(UpdateIndicators(Emit(w, [ev |-> "get_ticker"]), 1))
    ELSE UpdateTrader(w)

\* ------------------------------------------------------------------ inputs

Dec(c, e) == DecNorm(c, e)

Ticker(buy_price, sell_price) == [buy_price |-> buy_price, sell_price |-> sell_price]

BTC_USD == Pair("BTC", "USD")
ETH_BTC == Pair("ETH", "BTC")
ETH_USD == Pair("ETH", "USD")

\* a snapshot with a profitable cycle USD -> BTC -> ETH -> USD
ArbTickers ==
    (BTC_USD :> Ticker(Dec(10, 0), Dec(10, 0)))
    @@ (ETH_BTC :> Ticker(Dec(5, -1), Dec(5, -1)))
    @@ (ETH_USD :> Ticker(Dec(8, 0), Dec(8, 0)))

\* the legs the indicator of `quote` builds for (curr1, curr2)
Legs(type, tickers, quote, curr1, curr2) ==
    <<get_pair_and_rate(type, tickers, curr1, quote),
      get_pair_and_rate(type, tickers, curr2, curr1),
      get_pair_and_rate(type, tickers, quote, curr2)>>

\* the arguments the trader is started with
StartArgs(type) ==
    {<<Legs(type, ArbTickers, "USD", "BTC", "ETH"), 1, TRADING_AMOUNTS.USD>>,
     <<Legs(type, ArbTickers, "BTC", "ETH", "USD"), 2, TRADING_AMOUNTS.BTC>>}

\* what the exchange does with an order the moment it accepts it
Fills == {"open", "filled"}

Fault(call, nth, kind) == [call |-> call, nth |-> nth, kind |-> kind]

QueryFaults ==
    {Fault("get_user_open_orders", 1, "ExmoError"),
     Fault("get_user_open_orders", 1, "OSError"),
     Fault("get_order_trades", 1, "ExmoError")}

TraderFaults == {NoFault, Fault("place", 1, "ExmoError")} \cup QueryFaults

\* -------------------------------------------------- the exchange's own steps

\* an open order is executed: it leaves the open orders and has trades
ExchangeFill(i) ==
    /\ i \in DOMAIN exch_orders
    /\ exch_orders[i].state = "open"
    /\ exch_orders' = [exch_orders EXCEPT ![i].state = "filled"]
    /\ last' = [op |-> "exchange", raised |-> "none", events |-> <<>>]
    /\ UNCHANGED <<paper_trading, order_type, initial_amount, pairs_iter, triarb_opp_id,
                   current_pair, cur_pair_idx, current_order, current_acquired_curr,
                   current_acquired_amount, order_update_handler, signal_handler,
                   arb_opps, triarb_order, triarb_opportunity, shutdown_flag, runner,
                   ticks, loops, cb_log, probe>>

\* an open order leaves the open orders without a trade (cancelled on the
\* exchange's side)
ExchangeCancel(i) ==
    /\ i \in DOMAIN exch_orders
    /\ exch_orders[i].state = "open"
    /\ exch_orders' = [exch_orders EXCEPT ![i].state = "gone"]
    /\ last' = [op |-> "exchange", raised |-> "none", events |-> <<>>]
    /\ UNCHANGED <<paper_trading, order_type, initial_amount, pairs_iter, triarb_opp_id,
                   current_pair, cur_pair_idx, current_order, current_acquired_curr,
                   current_acquired_amount, order_update_handler, signal_handler,
                   arb_opps, triarb_order, triarb_opportunity, shutdown_flag, runner,
                   ticks, loops, cb_log, probe>>

Exchange ==
    \/ \E i \in DOMAIN exch_orders : ExchangeFill(i)
    \/ \E i \in DOMAIN exch_orders : ExchangeCancel(i)

\* how many of the call's start_arb_loop invocations got past the guard
LoopsStarted(w) ==
    Len(SelectSeq(w.last.events,
                  LAMBDA e : e.ev = "start_arb_loop" /\ ~e.in_progress /\ ~w.paper_trading))

\* --------------------------------------------- the trader, called directly

TraderInit ==
    /\ paper_trading \in BOOLEAN
    /\ order_type \in {"MARKET", "LIMIT"}
    /\ order_update_handler \in BOOLEAN
    /\ initial_amount = DecZero
    /\ pairs_iter = None
    /\ triarb_opp_id = 0
    /\ current_pair = None
    /\ cur_pair_idx = 0
    /\ current_order = None
    /\ current_acquired_curr = ""
    /\ current_acquired_amount = DecZero
    /\ signal_handler = None
    /\ arb_opps = <<>>
    /\ triarb_order = <<>>
    /\ triarb_opportunity = <<>>
    /\ exch_orders = <<>>
    /\ shutdown_flag = FALSE
    /\ runner = "none"
    /\ ticks = 0
    /\ loops = 0
    /\ cb_log = <<>>
    /\ last = [op |-> "init", raised |-> "none", events |-> <<>>]
    /\ probe = None

\* the call returned w
StartArbLoopReturns(w) ==
    /\ loops + LoopsStarted(w) <= MaxLoops
    /\ Commit(w)
    /\ loops' = loops + LoopsStarted(w)
    /\ UNCHANGED <<paper_trading, order_type, order_update_handler, signal_handler,
                   shutdown_flag, runner, ticks, probe>>

CallStartArbLoop(args, fault) ==
    StartArbLoopReturns(
        start_arb_loop(World("start_arb_loop", fault, "open"),
                       args[1][1], args[1][2], args[1][3], args[2], args[3]))

UpdateReturns(w) ==
    /\ Commit(w)
    /\ UNCHANGED <<paper_trading, order_type, order_update_handler, signal_handler,
                   shutdown_flag, runner, ticks, loops, probe>>

CallUpdate(fault) == UpdateReturns(update(World("update", fault, "open")))

TraderNext ==
    \/ \E args \in StartArgs(order_type), fault \in TraderFaults :
            CallStartArbLoop(args, fault)
    \/ \E fault \in TraderFaults : CallUpdate(fault)
    \/ Exchange

SpecTrader == TraderInit /\ [][TraderNext]_vars

\* -------------------------------------------------------- the whole program

\* no cycle gains
NoArbTickers ==
    (BTC_USD :> Ticker(Dec(10, 0), Dec(10, 0)))
    @@ (ETH_BTC :> Ticker(Dec(5, -1), Dec(5, -1)))
    @@ (ETH_USD :> Ticker(Dec(5, 0), Dec(5, 0)))

\* ETH_BTC is not listed: no triangle has its three legs
PartialTickers ==
    (BTC_USD :> Ticker(Dec(10, 0), Dec(10, 0)))
    @@ (ETH_USD :> Ticker(Dec(8, 0), Dec(8, 0)))

TickerSnapshots == {ArbTickers, NoArbTickers, PartialTickers}

Level(price, quantity, amount) == <<price, quantity, amount>>

Book(ask, bid) == [ask |-> ask, bid |-> bid]

\* enough depth on every leg of USD -> BTC -> ETH -> USD, which ends 3 USD up
DeepBooks ==
    (BTC_USD :> Book(<<Level(Dec(10, 0), Dec(3, -1), Dec(3, 0)),
                       Level(Dec(10, 0), Dec(7, -1), Dec(7, 0))>>, <<>>))
    @@ (ETH_BTC :> Book(<<Level(Dec(5, -1), Dec(2, 0), Dec(1, 0))>>, <<>>))
    @@ (ETH_USD :> Book(<<>>, <<Level(Dec(8, 0), Dec(2, 0), Dec(16, 0))>>))

\* the asks of BTC_USD total 3 USD
ShallowAskBooks ==
    [DeepBooks EXCEPT ![BTC_USD] =
        Book(<<Level(Dec(10, 0), Dec(3, -1), Dec(3, 0))>>, <<>>)]

\* the bids of ETH_USD total 0.5 ETH
ShallowBidBooks ==
    [DeepBooks EXCEPT ![ETH_USD] =
        Book(<<>>, <<Level(Dec(8, 0), Dec(5, -1), Dec(4, 0))>>)]

\* ETH sells at 5.5: the cycle ends 0.5 USD up
ThinBooks ==
    [DeepBooks EXCEPT ![ETH_USD] =
        Book(<<>>, <<Level(Dec(55, -1), Dec(2, 0), Dec(11, 0))>>)]

\* ETH sells at 6: the cycle ends 1 USD up, which is PNL_MIN_LIMIT
LimitBooks ==
    [DeepBooks EXCEPT ![ETH_USD] =
        Book(<<>>, <<Level(Dec(6, 0), Dec(2, 0), Dec(12, 0))>>)]

BookSnapshots == {DeepBooks, ShallowAskBooks, ShallowBidBooks, ThinBooks, LimitBooks}

TickFaults ==
    {NoFault,
     Fault("get_ticker", 1, "ExmoError"),
     Fault("get_ticker", 1, "OSError"),
     Fault("get_order_book", 1, "ExmoError"),
     Fault("place", 1, "ExmoError"),
     Fault("get_user_open_orders", 1, "OSError"),
     Fault("get_order_trades", 1, "ExmoError")}

\* The inputs a tick can read. With a loop in progress update() fetches no
\* tickers, only MARKET mode fetches the book, and in paper trading no order
\* reaches the exchange: an input that is not read is not enumerated.
TickersRead == IF current_order = None THEN TickerSnapshots ELSE {ArbTickers}

BooksRead ==
    IF current_order = None /\ order_type = "MARKET" THEN BookSnapshots ELSE {DeepBooks}

FillsRead == IF paper_trading THEN {"open"} ELSE Fills

FaultsRead ==
    {f \in TickFaults :
        \/ f = NoFault
        \/ f.call = "get_ticker" /\ current_order = None
        \/ f.call = "get_order_book" /\ current_order = None /\ order_type = "MARKET"
        \/ f.call \in {"place", "get_user_open_orders", "get_order_trades"}
              /\ ~paper_trading}

\* the errors StrategyRunner.run catches around strategy.update()
Caught == {"OSError", "ExmoError"}

\* the program as triarbot.py builds it, before the runner thread starts
Init ==
    /\ paper_trading \in BOOLEAN
    /\ order_type \in {"MARKET", "LIMIT"}
    /\ order_update_handler = FALSE
    /\ signal_handler = None
    /\ initial_amount = DecZero
    /\ pairs_iter = None
    /\ triarb_opp_id = 0
    /\ current_pair = None
    /\ cur_pair_idx = 0
    /\ current_order = None
    /\ current_acquired_curr = ""
    /\ current_acquired_amount = DecZero
    /\ arb_opps = [q \in {QUOTE_CURRS[i] : i \in DOMAIN QUOTE_CURRS} |-> <<>>]
    /\ triarb_order = <<>>
    /\ triarb_opportunity = <<>>
    /\ exch_orders = <<>>
    /\ shutdown_flag = FALSE
    /\ runner = "new"
    /\ ticks = 0
    /\ loops = 0
    /\ cb_log = <<>>
    /\ last = [op |-> "init", raised |-> "none", events |-> <<>>]
    /\ probe = None

\* run() up to the loop: strategy.start() registers the handlers
RunnerStart ==
    /\ runner = "new"
    /\ runner' = "polling"
    /\ signal_handler' = Handler("triarb_signal_handler")
    /\ order_update_handler' = TRUE
    /\ last' = [op |-> "start", raised |-> "none", events |-> <<>>]
    /\ UNCHANGED <<paper_trading, order_type, initial_amount, pairs_iter, triarb_opp_id,
                   current_pair, cur_pair_idx, current_order, current_acquired_curr,
                   current_acquired_amount, arb_opps, triarb_order, triarb_opportunity,
                   exch_orders, shutdown_flag, ticks, loops, cb_log, probe>>

\* strategy.update() returned or raised: an error that is neither OSError nor
\* ExmoError ends the thread
TickReturns(w) ==
    /\ Commit(w)
    /\ ticks' = ticks + 1
    /\ loops' = loops + LoopsStarted(w)
    /\ runner' = IF Raised(w) /\ w.last.raised \notin Caught THEN "dead" ELSE "polling"
    /\ UNCHANGED <<paper_trading, order_type, order_update_handler, signal_handler,
                   shutdown_flag, probe>>

\* one iteration of the loop: the flag is clear, sleep, strategy.update() in the try
RunnerTick(tickers, order_book, fault, fill) ==
    /\ runner = "polling"
    /\ ~shutdown_flag
    /\ ticks < MaxTicks
    /\ TickReturns(Strategy_update([World("tick", fault, fill) EXCEPT
                                       !.tickers = tickers, !.order_book = order_book]))

\* the loop ends on the flag: strategy.shutdown() unregisters the handlers
RunnerShutdown ==
    /\ runner = "polling"
    /\ shutdown_flag
    /\ runner' = "stopped"
    /\ signal_handler' = None
    /\ order_update_handler' = FALSE
    /\ last' = [op |-> "shutdown", raised |-> "none", events |-> <<>>]
    /\ UNCHANGED <<paper_trading, order_type, initial_amount, pairs_iter, triarb_opp_id,
                   current_pair, cur_pair_idx, current_order, current_acquired_curr,
                   current_acquired_amount, arb_opps, triarb_order, triarb_opportunity,
                   exch_orders, shutdown_flag, ticks, loops, cb_log, probe>>

\* the main thread: tri_arb_runner.shutdown_flag.set()
SetShutdownFlag ==
    /\ ~shutdown_flag
    /\ shutdown_flag' = TRUE
    /\ last' = [op |-> "set_flag", raised |-> "none", events |-> <<>>]
    /\ UNCHANGED <<paper_trading, order_type, initial_amount, pairs_iter, triarb_opp_id,
                   current_pair, cur_pair_idx, current_order, current_acquired_curr,
                   current_acquired_amount, order_update_handler, signal_handler,
                   arb_opps, triarb_order, triarb_opportunity, exch_orders, runner,
                   ticks, loops, cb_log, probe>>

Next ==
    \/ RunnerStart
    \/ \E tickers \in TickersRead, order_book \in BooksRead,
          fault \in FaultsRead, fill \in FillsRead :
            RunnerTick(tickers, order_book, fault, fill)
    \/ RunnerShutdown
    \/ SetShutdownFlag
    \/ Exchange

Spec == Init /\ [][Next]_vars

\* ------------------------------------- the program polled fairly, no faults

\* non-simulation mode
LiveInit == Init /\ ~paper_trading

\* strategy.update() returned or raised. The bound on the ticks counts the
\* ticks that begin with no loop in progress: each of them can start one loop
\* at most, and a tick that begins with a loop in progress is never held back.
LiveTickReturns(w) ==
    /\ Commit(w)
    /\ ticks' = IF current_order = None THEN ticks + 1 ELSE ticks
    /\ loops' = loops + LoopsStarted(w)
    /\ runner' = IF Raised(w) /\ w.last.raised \notin Caught THEN "dead" ELSE "polling"
    /\ UNCHANGED <<paper_trading, order_type, order_update_handler, signal_handler,
                   shutdown_flag, probe>>

\* one iteration of the loop of run() in which every exchange call succeeds
LiveTick(tickers, order_book, fill) ==
    /\ runner = "polling"
    /\ ~shutdown_flag
    /\ current_order # None \/ ticks < MaxTicks
    /\ LiveTickReturns(Strategy_update([World("tick", NoFault, fill) EXCEPT
                                           !.tickers = tickers, !.order_book = order_book]))

\* the thread polls: time.sleep(interval), strategy.update(), again
LivePoll ==
    \E tickers \in TickersRead, order_book \in BooksRead, fill \in FillsRead :
        LiveTick(tickers, order_book, fill)

\* the exchange executes an open order
LiveFill == \E i \in DOMAIN exch_orders : ExchangeFill(i)

LiveNext ==
    \/ RunnerStart
    \/ LivePoll
    \/ LiveFill

\* a poll is due: the thread is in its loop and the exchange has executed the
\* current order, so that the next strategy.update() moves the trader on
PollDue ==
    /\ runner = "polling"
    /\ ~shutdown_flag
    /\ current_order # None
    /\ exch_orders[current_order.exch_order_id].state # "open"

\* Weak fairness of the polls that are due, written out: the loop of run()
\* sleeps and calls strategy.update() again for as long as the flag is clear,
\* so a poll that stays due is made. (PollDue implies that LivePoll is enabled
\* and changes the state; polls that find the order still open are left
\* without any fairness.)
PollFair == []<>(~PollDue) \/ []<><<LivePoll>>_vars

\* The flag is never set and the loop of run() goes round for ever; every
\* order the exchange holds open is executed in the end.
SpecLive ==
    /\ LiveInit
    /\ [][LiveNext]_vars
    /\ PollFair
    /\ WF_vars(LiveFill)

\* ------------------------------------------- one indicator, called directly

\* ETH_USD is crossed: in MARKET mode both directions round USD gain, the
\* first more than the second
CrossedTickers ==
    (BTC_USD :> Ticker(Dec(10, 0), Dec(10, 0)))
    @@ (ETH_BTC :> Ticker(Dec(5, -1), Dec(5, -1)))
    @@ (ETH_USD :> Ticker(Dec(8, 0), Dec(1, 0)))

\* as CrossedTickers, but the second direction gains more than the first
LateMaxTickers ==
    (BTC_USD :> Ticker(Dec(10, 0), Dec(10, 0)))
    @@ (ETH_BTC :> Ticker(Dec(5, -1), Dec(5, -1)))
    @@ (ETH_USD :> Ticker(Dec(52, -1), Dec(1, 0)))

\* ETH_USD has a wide spread: in LIMIT mode both directions gain
WideTickers ==
    (BTC_USD :> Ticker(Dec(10, 0), Dec(10, 0)))
    @@ (ETH_BTC :> Ticker(Dec(5, -1), Dec(5, -1)))
    @@ (ETH_USD :> Ticker(Dec(1, 0), Dec(8, 0)))

\* ArbTickers and a market of LTC against USD only: the triangles through LTC
\* lack a leg
LtcTickers == ArbTickers @@ (Pair("LTC", "USD") :> Ticker(Dec(2, 0), Dec(2, 0)))

IndTickers ==
    {ArbTickers, NoArbTickers, PartialTickers, CrossedTickers, LateMaxTickers,
     WideTickers, LtcTickers}

\* handlers of an embedder other than the strategy
IndHandlers == {"h1", "h2"}

\* TriangularArbitrageIndicator.__init__ for one quote currency; probe lists the
\* handlers registered and not unregistered since, in the order of registration
IndInit ==
    /\ paper_trading = TRUE
    /\ order_type \in {"MARKET", "LIMIT"}
    /\ order_update_handler = FALSE
    /\ signal_handler = None
    /\ initial_amount = DecZero
    /\ pairs_iter = None
    /\ triarb_opp_id = 0
    /\ current_pair = None
    /\ cur_pair_idx = 0
    /\ current_order = None
    /\ current_acquired_curr = ""
    /\ current_acquired_amount = DecZero
    /\ \E q \in {QUOTE_CURRS[i] : i \in DOMAIN QUOTE_CURRS} : arb_opps = (q :> <<>>)
    /\ triarb_order = <<>>
    /\ triarb_opportunity = <<>>
    /\ exch_orders = <<>>
    /\ shutdown_flag = FALSE
    /\ runner = "none"
    /\ ticks = 0
    /\ loops = 0
    /\ cb_log = <<>>
    /\ last = [op |-> "init", raised |-> "none", events |-> <<>>]
    /\ probe = <<>>

\* the indicator's quote currency
IndQuote == CHOOSE q \in DOMAIN arb_opps : TRUE

\* TriangularArbitrageIndicator.register_signal_handler
register_signal_handler(h) ==
    /\ \A i \in DOMAIN probe : probe[i] # h
    /\ signal_handler' = Handler(h)
    /\ probe' = Append(probe, h)
    /\ last' = [op |-> "register_signal_handler", raised |-> "none", events |-> <<>>]
    /\ UNCHANGED <<paper_trading, order_type, initial_amount, pairs_iter, triarb_opp_id,
                   current_pair, cur_pair_idx, current_order, current_acquired_curr,
                   current_acquired_amount, order_update_handler, arb_opps,
                   triarb_order, triarb_opportunity, exch_orders, shutdown_flag, runner,
                   ticks, loops, cb_log>>

\* TriangularArbitrageIndicator.unregister_signal_handler
unregister_signal_handler(h) ==
    /\ \E i \in DOMAIN probe : probe[i] = h
    /\ signal_handler' = IF Handler(h) = signal_handler THEN None ELSE signal_handler
    /\ probe' = SelectSeq(probe, LAMBDA x : x # h)
    /\ last' = [op |-> "unregister_signal_handler", raised |-> "none", events |-> <<>>]
    /\ UNCHANGED <<paper_trading, order_type, initial_amount, pairs_iter, triarb_opp_id,
                   current_pair, cur_pair_idx, current_order, current_acquired_curr,
                   current_acquired_amount, order_update_handler, arb_opps,
                   triarb_order, triarb_opportunity, exch_orders, shutdown_flag, runner,
                   ticks, loops, cb_log>>

IndicatorUpdateReturns(w) ==
    /\ Commit(w)
    /\ ticks' = ticks + 1
    /\ UNCHANGED <<paper_trading, order_type, order_update_handler, signal_handler,
                   shutdown_flag, runner, loops, probe>>

CallIndicatorUpdate(tickers) ==
    /\ ticks < MaxUpdates
    /\ IndicatorUpdateReturns(
          Indicator_update([World("indicator_update", NoFault, "open") EXCEPT
                               !.tickers = tickers],
                           IndQuote))

IndNext ==
    \/ \E h \in IndHandlers : register_signal_handler(h)
    \/ \E h \in IndHandlers : unregister_signal_handler(h)
    \/ \E tickers \in IndTickers : CallIndicatorUpdate(tickers)

SpecInd == IndInit /\ [][IndNext]_vars

\* ------------------------------------- the rate calculators, called directly

CalcCurrencies == {"USD", "BTC", "ETH"}

CalcPairs == {Pair("BTC", "USD"), Pair("USD", "BTC"), Pair("ETH", "BTC")}

CalcTickerChoices == {Ticker(Dec(10000, 0), Dec(10010, 0)), Ticker(Dec(3, 0), Dec(7, 0))}

\* every snapshot listing some of CalcPairs
CalcSnapshots == UNION {[ps -> CalcTickerChoices] : ps \in SUBSET CalcPairs}

CalcInit ==
    /\ TraderInit
    /\ paper_trading = TRUE
    /\ order_type = "MARKET"
    /\ order_update_handler = FALSE

\* set_tickers(tickers), then get_pair_and_rate(curr_a, curr_b)
CallGetPairAndRate(type, tickers, curr_a, curr_b) ==
    /\ probe' = [fn |-> "get_pair_and_rate", type |-> type, tickers |-> tickers,
                 fee |-> IF type = "MARKET" THEN Fees.maker ELSE Fees.taker,
                 curr_a |-> curr_a, curr_b |-> curr_b,
                 result |-> get_pair_and_rate(type, tickers, curr_a, curr_b)]
    /\ UNCHANGED <<paper_trading, order_type, initial_amount, pairs_iter, triarb_opp_id,
                   current_pair, cur_pair_idx, current_order, current_acquired_curr,
                   current_acquired_amount, order_update_handler, signal_handler,
                   arb_opps, triarb_order, triarb_opportunity, exch_orders,
                   shutdown_flag, runner, ticks, loops, cb_log, last>>

CalcNext ==
    \E type \in {"MARKET", "LIMIT"}, tickers \in CalcSnapshots,
       curr_a \in CalcCurrencies, curr_b \in CalcCurrencies :
        CallGetPairAndRate(type, tickers, curr_a, curr_b)

SpecCalc == CalcInit /\ [][CalcNext]_vars

\* ------------------------------------------ the book walk, called directly

\* levels [price, quantity, amount] with amount = price * quantity
SlipLevels ==
    {Level(Dec(8, 0), Dec(2, 0), Dec(16, 0)),
     Level(Dec(10, 0), Dec(5, 0), Dec(50, 0)),
     Level(Dec(11, 0), Dec(6, 0), Dec(66, 0)),
     Level(Dec(12, 0), Dec(1, 0), Dec(12, 0))}

\* asks as the exchange lists them, cheapest first
SlipAsks ==
    {ls \in UNION {[1..n -> SlipLevels] : n \in 1..MaxLevels} :
        \A i \in DOMAIN ls : i > 1 => ls[i - 1][1][1] < ls[i][1][1]}

\* the same levels as bids, dearest first
SlipBook(ls) == Book(ls, [i \in DOMAIN ls |-> ls[Len(ls) + 1 - i]])

SlipAmounts ==
    {Dec(5, 0), Dec(7, 0), Dec(16, 0), Dec(50, 0), Dec(66, 0), Dec(100, 0), Dec(116, 0)}

SlipInit ==
    /\ TraderInit
    /\ paper_trading = TRUE
    /\ order_type = "MARKET"
    /\ order_update_handler = FALSE

\* _get_weighted_rate(amount_to_sell, order_book, side), which raises or returns
CallGetWeightedRate(amount_to_sell, order_book, side) ==
    /\ probe' = [fn |-> "_get_weighted_rate",
                 result |-> _get_weighted_rate(amount_to_sell, order_book, side)]
    /\ UNCHANGED <<paper_trading, order_type, initial_amount, pairs_iter, triarb_opp_id,
                   current_pair, cur_pair_idx, current_order, current_acquired_curr,
                   current_acquired_amount, order_update_handler, signal_handler,
                   arb_opps, triarb_order, triarb_opportunity, exch_orders,
                   shutdown_flag, runner, ticks, loops, cb_log, last>>

SlipNext ==
    \E amount_to_sell \in SlipAmounts, ls \in SlipAsks, side \in {"BUY", "SELL"} :
        CallGetWeightedRate(amount_to_sell, SlipBook(ls), side)

SpecSlip == SlipInit /\ [][SlipNext]_vars

\* ------------------------------------------------------------------ claims

HasEvent(name) == EventsOf(last.events, name) # <<>>

\* C1: start_arb_loop called while a loop is in progress is a no-op: the
\* current order, leg, leg iterator, opportunity id, initial and acquired
\* amount stay as they are, no order is submitted and the callback is not
\* invoked.
C1_StartWhileInProgressIsNoOp ==
    [][(last'.op = "start_arb_loop" /\ current_order # None)
        => /\ TraderState' = TraderState
           /\ exch_orders' = exch_orders
           /\ cb_log' = cb_log
           /\ triarb_order' = triarb_order
           /\ EventsOf(last'.events, "place") = <<>>
           /\ EventsOf(last'.events, "callback") = <<>>]_vars

\* a start_arb_loop call arrived while an order was open at the exchange
C1_Witness ==
    /\ last.op = "start_arb_loop"
    /\ last.events = <<[ev |-> "start_arb_loop", in_progress |-> TRUE]>>
    /\ current_order # None
    /\ current_order.status = "OPEN"
    /\ order_update_handler

\* the update call that closed a loop
LoopClosed == last.op = "update" /\ HasEvent("pnl")

\* the k-th order of the loop that just closed, as the exchange holds it
ClosedOrderId(k) == Len(exch_orders) - 3 + k

\* C2: a completed 3-leg sequence has placed exactly 3 orders, for leg 1, 2
\* and 3 in this order, each handed to the callback as PLACING, then OPEN,
\* then COMPLETED; no order is created while an earlier one is not executed;
\* and on leg-3 completion no loop is in progress, the leg index is 0 and the
\* reported PnL is the final acquired amount minus the initial amount.
C2_CompletedSequence ==
    /\ \A i \in 1..(Len(exch_orders) - 1) : exch_orders[i].state = "filled"
    /\ LoopClosed =>
        /\ current_order = None
        /\ cur_pair_idx = 0
        /\ EventsOf(last.events, "pnl")[1].pnl
              = DecSub(current_acquired_amount, initial_amount)
        /\ Len(exch_orders) >= 3
        /\ \A k \in 1..3 :
              /\ exch_orders[ClosedOrderId(k)].pair = pairs_iter.seq[k].pair
              /\ exch_orders[ClosedOrderId(k)].state = "filled"
        /\ order_update_handler =>
              /\ Len(cb_log) >= 9
              /\ \A k \in 1..3 :
                   LET b == Len(cb_log) - 9 + 3 * (k - 1) IN
                   /\ cb_log[b + 1].status = "PLACING"
                   /\ cb_log[b + 1].exch_order_id = -1
                   /\ cb_log[b + 2].status = "OPEN"
                   /\ cb_log[b + 3].status = "COMPLETED"
                   /\ \A j \in 1..3 : cb_log[b + j].pair = pairs_iter.seq[k].pair
                   /\ \A j \in 2..3 : cb_log[b + j].exch_order_id = ClosedOrderId(k)

\* a loop closed, with the callback registered
C2_Witness ==
    /\ LoopClosed
    /\ order_update_handler
    /\ Len(exch_orders) >= 3
    /\ current_acquired_amount # initial_amount

\* C3: in paper trading no order is ever placed, the trader never queries
\* the exchange, the callback is never invoked and no loop is in progress.
C3_PaperTradingIsInert ==
    paper_trading =>
        /\ current_order = None
        /\ exch_orders = <<>>
        /\ cb_log = <<>>
        /\ triarb_order = <<>>
        /\ ~HasEvent("place")
        /\ ~HasEvent("get_user_open_orders")
        /\ ~HasEvent("get_order_trades")
        /\ ~HasEvent("callback")

\* start_arb_loop was called in paper trading, with the callback registered
C3_Witness ==
    /\ paper_trading
    /\ order_update_handler
    /\ last.op = "start_arb_loop"

\* the current order has an exchange id, is not open and has no trades
OrderVanished ==
    /\ current_order # None
    /\ current_order.exch_order_id # -1
    /\ exch_orders[current_order.exch_order_id].state = "gone"

\* C4: update() on a vanished order (not open, no trades) raises; the order
\* is not marked COMPLETED, the callback is not invoked, no leg is placed.
C4_OrderVanishedRaises ==
    [][(last'.op = "update" /\ ~paper_trading /\ OrderVanished)
        => /\ last'.raised # "none"
           /\ (EventsOf(last'.events, "get_order_trades") # <<>>
                  /\ last'.raised \notin {"ExmoError", "OSError"}
               => last'.raised = "Exception")
           /\ TraderState' = TraderState
           /\ cb_log' = cb_log
           /\ triarb_order' = triarb_order
           /\ exch_orders' = exch_orders
           /\ EventsOf(last'.events, "place") = <<>>
           /\ EventsOf(last'.events, "callback") = <<>>]_vars

\* update() raised on a vanished order
C4_Witness ==
    /\ last.op = "update"
    /\ last.raised = "Exception"
    /\ OrderVanished
    /\ current_order.status = "OPEN"
    /\ order_update_handler

\* the exchange rejected the submission of the call that just ended
\* C5: after a tick in which Strategy.update() raised any error, the runner is
\* still in its polling loop: it goes on calling update() until the shutdown flag
\* is set and then runs Strategy.shutdown().
C5_RunnerSurvivesAnyError ==
    (last.op = "tick" /\ last.raised # "none") => runner = "polling"

\* the whole of one side of a book, added up level by level
RECURSIVE SideTotal(_, _, _)
SideTotal(levels, side, i) ==
    IF i > Len(levels) THEN DecZero
    ELSE IF i = 1 THEN levels[1][IF side = "BUY" THEN 3 ELSE 2]
    ELSE DecAdd(SideTotal(levels, side, i - 1), levels[i][IF side = "BUY" THEN 3 ELSE 2])

\* the book side of a walk holds less than the walk has to spend
Exhausted(walk) ==
    DecLt(IF walk.levels = <<>> THEN DecZero
          ELSE SideTotal(walk.levels, walk.side, Len(walk.levels)),
          walk.amount_to_sell)

\* C6: a leg of the slippage estimate fails exactly when its side of the book
\* holds less than the amount to spend (amounts for a BUY, quantities for a
\* SELL); the estimate fails when a leg does, the tick then ends with the
\* exception right after the estimate, start_arb_loop is not invoked for that
\* signal and no order is placed for it, and the trader's fields are what they
\* were when the signal arrived.
C6_InsufficientDepthAbandons ==
    [][\A i \in DOMAIN last'.events :
          (last'.op = "tick" /\ last'.events[i].ev = "slippage") =>
             LET r == last'.events[i].result
             IN /\ \A k \in DOMAIN r.walks : r.walks[k].raised <=> Exhausted(r.walks[k])
                /\ r.raised <=> \E k \in DOMAIN r.walks : Exhausted(r.walks[k])
                /\ r.raised =>
                      /\ last'.raised = "Exception"
                      /\ i = Len(last'.events)
                      /\ last'.events[i - 1].ev = "get_order_book"
                      /\ last'.events[i - 2].ev = "signal"
                      /\ exch_orders' = exch_orders
                      /\ triarb_order' = triarb_order
                      /\ (\A j \in 1..i : last'.events[j].ev # "start_arb_loop")
                            => TraderState' = TraderState]_vars

\* a tick whose estimate ran out of bids on the third leg, a SELL
C6_Witness ==
    /\ last.op = "tick"
    /\ last.raised = "Exception"
    /\ \E i \in DOMAIN last.events :
          /\ last.events[i].ev = "slippage"
          /\ Len(last.events[i].result.walks) = 3
          /\ last.events[i].result.walks[3].side = "SELL"
          /\ last.events[i].result.walks[3].raised
          /\ Exhausted(last.events[i].result.walks[3])

SubmissionRejected ==
    /\ last.op \in {"start_arb_loop", "update"}
    /\ last.raised = "ExmoError"
    /\ HasEvent("place")

\* C7: after a rejected submission the trader is in an explicit failed or
\* rolled-back state: idle again (no current order, leg index 0), or holding
\* an order marked as failed.
C7_RejectedSubmissionRollsBack ==
    SubmissionRejected =>
        \/ current_order = None /\ cur_pair_idx = 0
        \/ current_order # None /\ current_order.status \in {"FAILED", "CANCELED"}

Probed(fn) == probe # None /\ probe.fn = fn

\* C9: in both calculators get_pair_and_rate(a, b) is absent exactly when
\* neither a_b nor b_a is in the snapshot (and the call returns, absent or not).
C9_AbsentIffNoPair ==
    Probed("get_pair_and_rate") =>
        /\ (probe.result = None)
              <=> /\ Pair(probe.curr_a, probe.curr_b) \notin DOMAIN probe.tickers
                  /\ Pair(probe.curr_b, probe.curr_a) \notin DOMAIN probe.tickers
        /\ probe.result # None =>
              /\ probe.result.pair \in DOMAIN probe.tickers
              /\ probe.result.side \in {"BUY", "SELL"}

\* the limit calculator found only the inverse pair
C9_Witness ==
    /\ Probed("get_pair_and_rate")
    /\ probe.type = "LIMIT"
    /\ Pair(probe.curr_a, probe.curr_b) \notin DOMAIN probe.tickers
    /\ Pair(probe.curr_b, probe.curr_a) \in DOMAIN probe.tickers
    /\ probe.result # None

\* C10: the market calculator returns, for a listed pair a_b (b_a listed or
\* not), pair a_b, side BUY, order_rate = sell_price and calc_rate =
\* (1 - fee) / sell_price; for b_a listed alone, pair b_a, side SELL,
\* order_rate = buy_price and calc_rate = (1 - fee) * buy_price. With
\* sell_price 10010 and fee 0.002 the buy calc_rate is 0.998 / 10010.
C10_MarketRates ==
    (Probed("get_pair_and_rate") /\ probe.type = "MARKET") =>
        LET ab == Pair(probe.curr_a, probe.curr_b)
            ba == Pair(probe.curr_b, probe.curr_a)
            t  == probe.tickers
            r  == probe.result
        IN /\ ab \in DOMAIN t =>
                /\ r = [pair |-> ab, side |-> "BUY",
                        order_rate |-> t[ab].sell_price,
                        calc_rate |-> DecDiv(DecSub(Dec(1, 0), probe.fee),
                                             t[ab].sell_price)]
                /\ t[ab].sell_price = Dec(10010, 0) =>
                        r.calc_rate = DecDiv(Dec(998, -3), Dec(10010, 0))
           /\ (ab \notin DOMAIN t /\ ba \in DOMAIN t) =>
                r = [pair |-> ba, side |-> "SELL",
                     order_rate |-> t[ba].buy_price,
                     calc_rate |-> DecMul(DecSub(Dec(1, 0), probe.fee),
                                          t[ba].buy_price)]

\* the market calculator was asked for BTC with USD, both BTC_USD and USD_BTC
\* listed, BTC_USD at 10000 / 10010
C10_Witness ==
    /\ Probed("get_pair_and_rate")
    /\ probe.type = "MARKET"
    /\ probe.curr_a = "BTC"
    /\ probe.curr_b = "USD"
    /\ Pair("USD", "BTC") \in DOMAIN probe.tickers
    /\ Pair("BTC", "USD") \in DOMAIN probe.tickers
    /\ probe.tickers[Pair("BTC", "USD")] = Ticker(Dec(10000, 0), Dec(10010, 0))
    /\ probe.result.side = "BUY"

\* C8: in no tick, however many indicators signal in it, is start_arb_loop
\* invoked while is_loop_in_progress() is true.
C8_NoStartWhileInProgress ==
    last.op = "tick" =>
        \A i \in DOMAIN last.events :
            last.events[i].ev = "start_arb_loop" => ~last.events[i].in_progress

\* the exchange lists a market of a and b, one way round or the other
Listed(tickers, a, b) ==
    Pair(a, b) \in DOMAIN tickers \/ Pair(b, a) \in DOMAIN tickers

\* the ordered pairs (c1, c2) of the universe a quote's indicator goes through
Eligible(quote) ==
    {c \in {CurrencyList[i] : i \in DOMAIN CurrencyList}
            \X {CurrencyList[i] : i \in DOMAIN CurrencyList} :
        c[1] # quote /\ c[2] # quote /\ c[1] # c[2]}

\* the three legs of (c1, c2) are all listed
Complete(tickers, quote, c) ==
    /\ Listed(tickers, c[1], quote)
    /\ Listed(tickers, c[2], c[1])
    /\ Listed(tickers, quote, c[2])

\* C11: an update computes a gain for exactly the pairs (c1, c2) with
\* c1 # quote, c2 # quote, c1 # c2 whose three legs rate(c1, quote),
\* rate(c2, c1), rate(quote, c2) are all present, once each; the gain is
\* leg2.calc_rate * leg3.calc_rate - 1 / leg1.calc_rate; a triangle with an
\* absent leg is not computed, adds nothing to the cache and is not signalled.
C11_TrianglesEvaluated ==
    [][last'.op = "indicator_update" =>
        LET e == last'.events[1]
            q == e.quote_curr
            E == e.evaluated
        IN /\ e.ev = "scan"
           /\ \A c \in Eligible(q) :
                 Cardinality({i \in DOMAIN E : E[i].curr1 = c[1] /\ E[i].curr2 = c[2]})
                     = IF Complete(e.tickers, q, c) THEN 1 ELSE 0
           /\ \A i \in DOMAIN E :
                 /\ <<E[i].curr1, E[i].curr2>> \in Eligible(q)
                 /\ E[i].legs[1] = get_pair_and_rate(order_type, e.tickers, E[i].curr1, q)
                 /\ E[i].legs[2] = get_pair_and_rate(order_type, e.tickers, E[i].curr2,
                                                     E[i].curr1)
                 /\ E[i].legs[3] = get_pair_and_rate(order_type, e.tickers, q, E[i].curr2)
                 /\ E[i].gain = DecSub(DecMul(E[i].legs[2].calc_rate,
                                              E[i].legs[3].calc_rate),
                                       DecDiv(Dec(1, 0), E[i].legs[1].calc_rate))
           /\ \A path \in DOMAIN arb_opps'[q] :
                 \/ \E i \in DOMAIN E :
                        path = <<E[i].legs[1].pair, E[i].legs[2].pair, E[i].legs[3].pair>>
                 \/ path \in DOMAIN arb_opps[q] /\ arb_opps'[q][path] = arb_opps[q][path]
           /\ \A j \in DOMAIN last'.events :
                 last'.events[j].ev = "signal" =>
                    \E i \in DOMAIN E :
                        E[i].legs = <<last'.events[j].pair1, last'.events[j].pair2,
                                      last'.events[j].pair3>>]_vars

\* an update over tickers where the triangles through LTC lack a leg and the
\* two through BTC and ETH are computed
C11_Witness ==
    /\ last.op = "indicator_update"
    /\ Pair("LTC", "USD") \in DOMAIN last.events[1].tickers
    /\ Len(last.events[1].evaluated) = 2
    /\ \E c \in Eligible(last.events[1].quote_curr) :
          ~Complete(last.events[1].tickers, last.events[1].quote_curr, c)

\* the positions of the handler invocations among a call's events
Signals(events) == {j \in DOMAIN events : events[j].ev = "signal"}

\* C12: in each update with a handler registered, the handler is invoked
\* exactly once if the greatest gain over the triangles computed in this call
\* is strictly positive and not at all otherwise; the invocation carries the
\* legs and the gain of a computed triangle whose gain is that maximum, from
\* this call's tickers, with the indicator's order type and quote currency.
C12_SignalOncePerUpdate ==
    [][(last'.op = "indicator_update" /\ signal_handler # None) =>
        LET e == last'.events[1]
            E == e.evaluated
            S == Signals(last'.events)
        IN IF \E i \in DOMAIN E : DecLt(DecZero, E[i].gain)
           THEN /\ Cardinality(S) = 1
                /\ \A j \in S :
                      /\ last'.events[j].handler = signal_handler
                      /\ last'.events[j].order_type = order_type
                      /\ last'.events[j].quote_curr = IndQuote
                      /\ \E i \in DOMAIN E :
                            /\ \A k \in DOMAIN E : ~DecLt(E[i].gain, E[k].gain)
                            /\ last'.events[j].gain = E[i].gain
                            /\ last'.events[j].pair1
                                  = get_pair_and_rate(order_type, e.tickers, E[i].curr1,
                                                      IndQuote)
                            /\ last'.events[j].pair2
                                  = get_pair_and_rate(order_type, e.tickers, E[i].curr2,
                                                      E[i].curr1)
                            /\ last'.events[j].pair3
                                  = get_pair_and_rate(order_type, e.tickers, IndQuote,
                                                      E[i].curr2)
           ELSE S = {}]_vars

\* an update, with a handler registered, in which two triangles gain, the
\* first computed gains more, and the handler was invoked once
C12_Witness ==
    /\ last.op = "indicator_update"
    /\ signal_handler # None
    /\ Cardinality(Signals(last.events)) = 1
    /\ \E i, k \in DOMAIN last.events[1].evaluated :
          /\ i < k
          /\ DecLt(DecZero, last.events[1].evaluated[k].gain)
          /\ DecLt(last.events[1].evaluated[k].gain, last.events[1].evaluated[i].gain)

\* the cache entry of a computed triangle, as update stores it
EntryOf(t) == <<t.legs[1], t.legs[2], t.legs[3], t.gain>>

\* C13 as stated: after an update, for every triangle whose three legs are
\* all present in the tickers, the cache entry under its path holds the legs
\* and the gain computed from these tickers.
C13_CacheHoldsLatest ==
    [][last'.op = "indicator_update" =>
        LET E == last'.events[1].evaluated
        IN \A i \in DOMAIN E :
              /\ PathOf(E[i].legs[1], E[i].legs[2], E[i].legs[3])
                     \in DOMAIN arb_opps'[IndQuote]
              /\ arb_opps'[IndQuote][PathOf(E[i].legs[1], E[i].legs[2], E[i].legs[3])]
                     = EntryOf(E[i])]_vars

\* C13 (amended): after an update, for every triangle whose three legs are
\* all present in the tickers and whose gain is strictly positive, the cache
\* entry under its path holds the legs and the gain computed from these
\* tickers, whatever an earlier update stored there; a triangle whose gain is
\* not strictly positive leaves the cache under its path as it was.
C13_CacheHoldsLatestGain ==
    [][last'.op = "indicator_update" =>
        LET E == last'.events[1].evaluated
        IN \A i \in DOMAIN E :
              LET path == PathOf(E[i].legs[1], E[i].legs[2], E[i].legs[3])
              IN IF DecLt(DecZero, E[i].gain)
                 THEN /\ path \in DOMAIN arb_opps'[IndQuote]
                      /\ arb_opps'[IndQuote][path] = EntryOf(E[i])
                 ELSE /\ path \in DOMAIN arb_opps'[IndQuote]
                             <=> path \in DOMAIN arb_opps[IndQuote]
                      /\ path \in DOMAIN arb_opps[IndQuote] =>
                             arb_opps'[IndQuote][path] = arb_opps[IndQuote][path]]_vars

\* after a second update: one triangle gains and its entry is this update's,
\* another does not gain and its path still holds what the first update stored
C13_Witness ==
    /\ last.op = "indicator_update"
    /\ ticks = 2
    /\ \E i, k \in DOMAIN last.events[1].evaluated :
          LET E == last.events[1].evaluated
          IN /\ DecLt(DecZero, E[i].gain)
             /\ arb_opps[IndQuote][PathOf(E[i].legs[1], E[i].legs[2], E[i].legs[3])]
                    = EntryOf(E[i])
             /\ ~DecLt(DecZero, E[k].gain)
             /\ PathOf(E[k].legs[1], E[k].legs[2], E[k].legs[3])
                    \in DOMAIN arb_opps[IndQuote]

\* C17: with two different handlers registered on the indicator (probe holds
\* the handlers registered and not unregistered, in registration order), an
\* update that finds a strictly positive maximum gain invokes each of them
\* exactly once.
C17_EveryHandlerInvoked ==
    [][(/\ last'.op = "indicator_update"
        /\ Len(probe) = 2
        /\ \E i \in DOMAIN last'.events[1].evaluated :
              DecLt(DecZero, last'.events[1].evaluated[i].gain)) =>
        \A n \in DOMAIN probe :
            Cardinality({j \in Signals(last'.events) :
                            last'.events[j].handler = Handler(probe[n])}) = 1]_vars

\* C18: the limit calculator returns, for a listed pair a_b, side BUY with
\* order_rate = buy_price * (1 + offset); for b_a listed alone, side SELL with
\* order_rate = sell_price * (1 - offset). A buy_price of 10000 with offset
\* 0.0005 gives the order_rate 10005.
C18_LimitOrderRates ==
    (Probed("get_pair_and_rate") /\ probe.type = "LIMIT") =>
        LET ab == Pair(probe.curr_a, probe.curr_b)
            ba == Pair(probe.curr_b, probe.curr_a)
            t  == probe.tickers
            r  == probe.result
        IN /\ ab \in DOMAIN t =>
                /\ r.pair = ab
                /\ r.side = "BUY"
                /\ r.order_rate = DecMul(t[ab].buy_price, DecAdd(Dec(1, 0), Dec(5, -4)))
                /\ t[ab].buy_price = Dec(10000, 0) => r.order_rate = Dec(10005, 0)
           /\ (ab \notin DOMAIN t /\ ba \in DOMAIN t) =>
                /\ r.pair = ba
                /\ r.side = "SELL"
                /\ r.order_rate = DecMul(t[ba].sell_price, DecSub(Dec(1, 0), Dec(5, -4)))

\* the limit calculator was asked for BTC with USD, BTC_USD listed with
\* buy_price 10000, and answered a buy at 10005
C18_Witness ==
    /\ Probed("get_pair_and_rate")
    /\ probe.type = "LIMIT"
    /\ probe.curr_a = "BTC"
    /\ probe.curr_b = "USD"
    /\ Pair("BTC", "USD") \in DOMAIN probe.tickers
    /\ probe.tickers[Pair("BTC", "USD")].buy_price = Dec(10000, 0)
    /\ probe.result.side = "BUY"
    /\ probe.result.order_rate = Dec(10005, 0)

\* a and b differ by no more than |b| * 10^(2 - Prec): a few units in the
\* last place of the decimal context
Close(a, b) ==
    ~DecLt(<<Abs(b[1]), b[2]>>,
           DecMul(<<Abs(DecSub(a, b)[1]), DecSub(a, b)[2]>>, Dec(1, Prec - 2)))

RECURSIVE LevelSum(_, _, _)
LevelSum(levels, column, n) ==
    IF n = 0 THEN Dec(0, 0)
    ELSE DecAdd(LevelSum(levels, column, n - 1), levels[n][column])

\* the column a walk spends from: amounts when buying, quantities when selling
SpendColumn(side) == IF side = "BUY" THEN 3 ELSE 2

\* the level at which the levels added up first reach the amount to spend
Consumed(walk) ==
    CHOOSE n \in DOMAIN walk.levels :
        /\ ~DecLt(LevelSum(walk.levels, SpendColumn(walk.side), n), walk.amount_to_sell)
        /\ \A m \in 1..(n - 1) :
              DecLt(LevelSum(walk.levels, SpendColumn(walk.side), m), walk.amount_to_sell)

\* C14: when the walk of one leg succeeds, the total on the spend side (amount
\* for a BUY, quantity for a SELL) equals the requested amount. If the levels
\* consumed add up to exactly the requested amount, both totals are the plain
\* sums of those levels; if the last level consumed overshoots, the levels
\* before it count in full and the surplus is taken off at the last level's
\* price. The weighted rate is computed on these totals. Asks [10, 5, 50],
\* [11, 6, 66] and 100 to spend: the last level contributes 50 of its 66.
C14_SpendTotalEqualsTarget ==
    (Probed("_get_weighted_rate") /\ ~probe.result.raised) =>
        LET r == probe.result
            n == Consumed(r)
            spent == LevelSum(r.levels, SpendColumn(r.side), n)
            quantity == LevelSum(r.levels, 2, n)
            amount == LevelSum(r.levels, 3, n)
            surplus == DecSub(spent, r.amount_to_sell)
        IN /\ (IF r.side = "BUY" THEN r.amount_total ELSE r.quantity_total)
                  = r.amount_to_sell
           /\ spent = r.amount_to_sell =>
                 r.quantity_total = quantity /\ r.amount_total = amount
           /\ (spent # r.amount_to_sell /\ r.side = "BUY") =>
                 r.quantity_total = DecSub(quantity, DecDiv(surplus, r.levels[n][1]))
           /\ (spent # r.amount_to_sell /\ r.side = "SELL") =>
                 r.amount_total = DecSub(amount, DecMul(surplus, r.levels[n][1]))
           /\ r.weighted_rate =
                 IF r.side = "BUY"
                 THEN DecDiv(DecMul(Dec(998, -3), r.quantity_total), r.amount_total)
                 ELSE DecDiv(DecMul(Dec(998, -3), r.amount_total), r.quantity_total)
           /\ (/\ r.side = "BUY"
               /\ r.amount_to_sell = Dec(100, 0)
               /\ r.levels = <<Level(Dec(10, 0), Dec(5, 0), Dec(50, 0)),
                               Level(Dec(11, 0), Dec(6, 0), Dec(66, 0))>>) =>
                 /\ r.amount_total = DecAdd(Dec(50, 0), Dec(50, 0))
                 /\ r.quantity_total = DecAdd(Dec(5, 0), DecDiv(Dec(50, 0), Dec(11, 0)))

\* the walk bought for 100 from asks [10, 5, 50], [11, 6, 66] and cut the
\* second level
C14_Witness ==
    /\ Probed("_get_weighted_rate")
    /\ ~probe.result.raised
    /\ probe.result.side = "BUY"
    /\ probe.result.amount_to_sell = Dec(100, 0)
    /\ probe.result.levels = <<Level(Dec(10, 0), Dec(5, 0), Dec(50, 0)),
                               Level(Dec(11, 0), Dec(6, 0), Dec(66, 0))>>
    /\ probe.result.amount_total = Dec(100, 0)
    /\ DecLt(probe.result.quantity_total, Dec(11, 0))

\* the slippage estimates a call made and returned from
Estimates(events) ==
    {i \in DOMAIN events : events[i].ev = "slippage" /\ ~events[i].result.raised}

\* what a walk acquired: the quantity bought, or the amount sold for
Acquired(walk) == IF walk.side = "BUY" THEN walk.quantity_total ELSE walk.amount_total

\* C15: in market mode start_arb_loop is invoked for a signal only if the PnL
\* of the estimate made for it from the order books (the amount acquired on
\* the last leg minus the trading amount) is not below PNL_MIN_LIMIT; when it
\* is below, start_arb_loop is not invoked for that signal, whatever the gain
\* the signal carried, and unless another signal of the tick starts a loop
\* the trader's fields and the exchange's orders stay as they were.
C15_PnLGate ==
    [][(last'.op = "tick" /\ order_type = "MARKET") =>
        /\ \A i \in Estimates(last'.events) :
              /\ last'.events[i - 2].ev = "signal"
              /\ last'.events[i].result.gain_amount
                    = DecSub(Acquired(last'.events[i].result.walks[3]),
                             TRADING_AMOUNTS[last'.events[i - 2].quote_curr])
              /\ DecLt(last'.events[i].result.gain_amount, Dec(1, 0)) =>
                    \/ i = Len(last'.events)
                    \/ last'.events[i + 1].ev # "start_arb_loop"
        /\ \A j \in DOMAIN last'.events :
              last'.events[j].ev = "start_arb_loop" =>
                 /\ j - 1 \in Estimates(last'.events)
                 /\ ~DecLt(last'.events[j - 1].result.gain_amount, Dec(1, 0))
        /\ (/\ \E i \in Estimates(last'.events) :
                  DecLt(last'.events[i].result.gain_amount, Dec(1, 0))
            /\ \A j \in DOMAIN last'.events : last'.events[j].ev # "start_arb_loop") =>
              /\ TraderState' = TraderState
              /\ exch_orders' = exch_orders
              /\ triarb_order' = triarb_order]_vars

\* a tick in market mode whose signal carried a gain above 1 while the books
\* gave a PnL below the limit: the tick ended without start_arb_loop
C15_Witness ==
    /\ last.op = "tick"
    /\ order_type = "MARKET"
    /\ \E i \in Estimates(last.events) :
          /\ DecLt(last.events[i].result.gain_amount, Dec(1, 0))
          /\ DecLt(Dec(1, 0), last.events[i - 2].gain)
    /\ ~HasEvent("start_arb_loop")
    /\ current_order = None

\* C20: in the slippage estimate the legs are chained: the first walk spends
\* the trading amount, each further walk spends what the walk before it
\* acquired (quantity total of a BUY, amount total of a SELL), each walk is on
\* the side of its leg; the PnL is what the third walk acquired minus the
\* trading amount and the gain is rate2 * rate3 - 1 / rate1 over the three
\* weighted rates.
C20_LegsChained ==
    [][\A i \in DOMAIN last'.events :
          last'.events[i].ev = "slippage" =>
             LET r == last'.events[i].result
                 s == last'.events[i - 2]
             IN /\ s.ev = "signal"
                /\ r.walks[1].amount_to_sell = TRADING_AMOUNTS[s.quote_curr]
                /\ r.walks[1].side = s.pair1.side
                /\ Len(r.walks) >= 2 =>
                      /\ r.walks[2].amount_to_sell = Acquired(r.walks[1])
                      /\ r.walks[2].side = s.pair2.side
                /\ Len(r.walks) >= 3 =>
                      /\ r.walks[3].amount_to_sell = Acquired(r.walks[2])
                      /\ r.walks[3].side = s.pair3.side
                /\ \A k \in DOMAIN r.walks :
                      ~r.walks[k].raised => r.walks[k].acquired_amount = Acquired(r.walks[k])
                /\ ~r.raised =>
                      /\ Len(r.walks) = 3
                      /\ r.gain_amount = DecSub(Acquired(r.walks[3]),
                                                TRADING_AMOUNTS[s.quote_curr])
                      /\ r.gain = DecSub(DecMul(r.walks[2].weighted_rate,
                                                r.walks[3].weighted_rate),
                                         DecDiv(Dec(1, 0), r.walks[1].weighted_rate))]_vars

\* an estimate over three legs, two bought and one sold, each spending another
\* amount than the trading amount after the first
C20_Witness ==
    \E i \in Estimates(last.events) :
        /\ last.events[i].result.walks[1].side = "BUY"
        /\ last.events[i].result.walks[3].side = "SELL"
        /\ last.events[i].result.walks[2].amount_to_sell
              # last.events[i].result.walks[1].amount_to_sell
        /\ last.events[i].result.walks[3].amount_to_sell
              # last.events[i].result.walks[2].amount_to_sell

\* how many of the first n orders handed to the callback were in status
\* PLACING: the row id the callback gave the latest of them
PlacedBefore(log, n) == Cardinality({m \in 1..n : log[m].status = "PLACING"})

\* C16: with a handler registered the callback gets the order at each change
\* of status (created in PLACING with id -1, then OPEN, then COMPLETED), and
\* the trader goes on with the value it returned: the OPEN record is the
\* PLACING one with the id the callback assigned, the exchange's order id and
\* the new status; the COMPLETED record is the OPEN one with the new status;
\* and after a call in which the callback ran the current order, unless
\* cleared, is the value the last callback returned.
C16_CallbackReturnIsRecord ==
    [][order_update_handler =>
        /\ \A n \in DOMAIN cb_log' :
              /\ cb_log'[n].status \in {"PLACING", "OPEN", "COMPLETED"}
              /\ cb_log'[n].status = "PLACING" => cb_log'[n].id = -1
              /\ cb_log'[n].status = "OPEN" =>
                    /\ n > 1
                    /\ cb_log'[n - 1].status = "PLACING"
                    /\ cb_log'[n].id = PlacedBefore(cb_log', n)
                    /\ cb_log'[n].exch_order_id # -1
                    /\ cb_log'[n] = [cb_log'[n - 1] EXCEPT
                                        !.id = cb_log'[n].id,
                                        !.exch_order_id = cb_log'[n].exch_order_id,
                                        !.status = "OPEN"]
              /\ cb_log'[n].status = "COMPLETED" =>
                    /\ n > 1
                    /\ cb_log'[n] = [cb_log'[n - 1] EXCEPT !.status = "COMPLETED"]
                    /\ cb_log'[n].id = PlacedBefore(cb_log', n)
        /\ (cb_log' # cb_log /\ current_order' # None) =>
              LET o == cb_log'[Len(cb_log')]
              IN current_order' =
                    IF o.status = "PLACING"
                    THEN [o EXCEPT !.id = PlacedBefore(cb_log', Len(cb_log'))]
                    ELSE o
        /\ (/\ current_order' # None
            /\ \/ current_order = None
               \/ current_order # None /\ current_order'.status # current_order.status) =>
              cb_log' # cb_log]_vars

\* the first order of a round went through PLACING, OPEN and COMPLETED with
\* the id 1 from OPEN on, and the second order is open with the id 2
C16_Witness ==
    /\ order_update_handler
    /\ Len(cb_log) >= 5
    /\ cb_log[1].status = "PLACING" /\ cb_log[1].id = -1
    /\ cb_log[2].status = "OPEN" /\ cb_log[2].id = 1
    /\ cb_log[3].status = "COMPLETED" /\ cb_log[3].id = 1
    /\ cb_log[5].status = "OPEN" /\ cb_log[5].id = 2
    /\ current_order = cb_log[5]

\* the call created an order: the leg index went up by one
OrderCreated == current_order' # None /\ cur_pair_idx' = cur_pair_idx + 1

\* C21: for every order the trader creates, the quantity is the acquired
\* amount divided by the leg's order_rate when the order type is LIMIT and the
\* side BUY, and the acquired amount in every other case; and exactly one
\* submission is made for it, of the kind its type and side select: limit
\* buy, limit sell, market buy-total or market sell. (A call of start_arb_loop
\* or of update creates one order at most.)
C21_QuantityAndSubmission ==
    [][/\ Len(EventsOf(last'.events, "place")) = IF OrderCreated THEN 1 ELSE 0
       /\ OrderCreated =>
             LET p == EventsOf(last'.events, "place")[1]
             IN /\ current_order'.quantity =
                      IF order_type = "LIMIT" /\ current_pair'.side = "BUY"
                      THEN DecDiv(current_acquired_amount', current_pair'.order_rate)
                      ELSE current_acquired_amount'
                /\ p.quantity = current_order'.quantity
                /\ p.pair = current_pair'.pair
                /\ p.kind =
                      IF order_type = "LIMIT"
                      THEN (IF current_pair'.side = "BUY" THEN "buy" ELSE "sell")
                      ELSE (IF current_pair'.side = "BUY" THEN "market_buy_total"
                                                         ELSE "market_sell")
                /\ order_type = "LIMIT" => p.price = current_pair'.order_rate
                /\ last'.raised = "none" =>
                      /\ Len(exch_orders') = Len(exch_orders) + 1
                      /\ current_order'.exch_order_id = Len(exch_orders')
                      /\ exch_orders'[Len(exch_orders')].kind = p.kind
                      /\ exch_orders'[Len(exch_orders')].quantity = p.quantity]_vars

\* a limit buy whose quantity is not the acquired amount, placed as the second
\* leg of a round
C21_Witness ==
    /\ last.op = "update"
    /\ order_type = "LIMIT"
    /\ cur_pair_idx = 2
    /\ current_order # None
    /\ current_order.side = "BUY"
    /\ current_order.quantity # current_acquired_amount
    /\ Len(EventsOf(last.events, "place")) = 1
    /\ EventsOf(last.events, "place")[1].kind = "buy"

\* how many submissions a call made among its first j events
PlacedUpTo(events, j) == Cardinality({k \in 1..j : events[k].ev = "place"})

\* C22: with a handler registered, each submission is directly preceded by the
\* callback for the same order in status PLACING with exchange order id -1; the
\* callback for status OPEN comes directly after a submission the exchange
\* accepted and carries the id the exchange gave, and does not come when the
\* submission was rejected. In every state the current order has exchange
\* order id -1 if and only if its status is PLACING.
C22_PlacingProtocol ==
    [][/\ order_update_handler =>
             \A j \in DOMAIN last'.events :
                /\ last'.events[j].ev = "place" =>
                      /\ j > 1
                      /\ last'.events[j - 1].ev = "callback"
                      /\ last'.events[j - 1].order.status = "PLACING"
                      /\ last'.events[j - 1].order.exch_order_id = -1
                      /\ last'.events[j - 1].order.pair = last'.events[j].pair
                      /\ last'.events[j - 1].order.quantity = last'.events[j].quantity
                      /\ IF j < Len(last'.events)
                         THEN /\ last'.events[j + 1].ev = "callback"
                              /\ last'.events[j + 1].order.status = "OPEN"
                              /\ last'.events[j + 1].order.exch_order_id
                                    = Len(exch_orders) + PlacedUpTo(last'.events, j)
                              /\ Len(exch_orders') >= Len(exch_orders)
                                                         + PlacedUpTo(last'.events, j)
                         ELSE /\ last'.raised # "none"
                              /\ Len(exch_orders') = Len(exch_orders)
                                                        + PlacedUpTo(last'.events, j) - 1
                /\ (last'.events[j].ev = "callback"
                        /\ last'.events[j].order.status = "OPEN") =>
                      /\ j > 1
                      /\ last'.events[j - 1].ev = "place"
       /\ current_order' # None =>
             (current_order'.exch_order_id = -1 <=> current_order'.status = "PLACING")]_vars

\* a call that placed an order the exchange accepted, the callback having seen
\* it in PLACING and then in OPEN
C22_Witness ==
    /\ order_update_handler
    /\ last.raised = "none"
    /\ \E j \in DOMAIN last.events :
          /\ last.events[j].ev = "place"
          /\ last.events[j - 1].ev = "callback"
          /\ last.events[j - 1].order.status = "PLACING"
          /\ last.events[j + 1].ev = "callback"
          /\ last.events[j + 1].order.status = "OPEN"
          /\ last.events[j + 1].order.exch_order_id = current_order.exch_order_id
    /\ current_order.status = "OPEN"

\* the current order was accepted by the exchange and is in the state given
OrderAtExchange(state) ==
    /\ ~paper_trading
    /\ current_order # None
    /\ current_order.exch_order_id \in DOMAIN exch_orders
    /\ exch_orders[current_order.exch_order_id].state = state

\* C23: an update made while the current order is still among the exchange's
\* open orders under the current pair (the open-orders query answering)
\* returns without error and has no effect: the current order stays OPEN, leg,
\* leg index, leg iterator, acquired amount and currency are unchanged, the
\* callback is not invoked, the trades are not queried and nothing is placed.
C23_OpenOrderNoEffect ==
    [][(OrderAtExchange("open") /\ CallUpdate(NoFault)) =>
        /\ last'.raised = "none"
        /\ last'.events = <<[ev |-> "get_user_open_orders"]>>
        /\ TraderState' = TraderState
        /\ current_order'.status = "OPEN"
        /\ cb_log' = cb_log
        /\ triarb_order' = triarb_order
        /\ exch_orders' = exch_orders]_vars

\* an update that found its order, the second leg's, still open
C23_Witness ==
    /\ last.op = "update"
    /\ last.raised = "none"
    /\ last.events = <<[ev |-> "get_user_open_orders"]>>
    /\ OrderAtExchange("open")
    /\ current_order.status = "OPEN"
    /\ cur_pair_idx = 2

\* the quantity of an order for leg pair that spends amount
QuantityFor(pair, amount) ==
    IF order_type = "LIMIT" /\ pair.side = "BUY"
    THEN DecDiv(amount, pair.order_rate)
    ELSE amount

\* C24: an update made when the current order has left the open orders and has
\* trades (every exchange call answering) does, in this order: record the
\* acquired currency and the acquired amount in_amount * (1 - taker fee), make
\* the order COMPLETED and hand it to the callback, and, if a leg remains,
\* place the next leg's order spending the newly acquired amount.
C24_CompletionThenNextLeg ==
    [][(OrderAtExchange("filled") /\ CallUpdate(NoFault)) =>
        LET E == last'.events
            t == OrderTrades(exch_orders, current_order.exch_order_id)
            amount == DecMul(t.in_amount, DecSub(Dec(1, 0), Dec(2, -3)))
            k == IF order_update_handler THEN 3 ELSE 2
            more == pairs_iter.idx < Len(pairs_iter.seq)
            next == pairs_iter.seq[pairs_iter.idx + 1]
        IN /\ last'.raised = "none"
           /\ E[1].ev = "get_user_open_orders"
           /\ E[2].ev = "get_order_trades"
           /\ current_acquired_curr' = t.in_currency
           /\ current_acquired_amount' = amount
           /\ order_update_handler =>
                 /\ E[3].ev = "callback"
                 /\ E[3].order = [current_order EXCEPT !.status = "COMPLETED"]
                 /\ E[3].acquired_curr = t.in_currency
                 /\ E[3].acquired_amount = amount
                 /\ triarb_order'[current_order.id].status = "COMPLETED"
           /\ more =>
                 /\ current_pair' = next
                 /\ cur_pair_idx' = cur_pair_idx + 1
                 /\ order_update_handler =>
                       /\ E[4].ev = "callback"
                       /\ E[4].order.status = "PLACING"
                       /\ E[4].order.pair = next.pair
                       /\ E[4].order.quantity = QuantityFor(next, amount)
                 /\ E[IF order_update_handler THEN 5 ELSE 3].ev = "place"
                 /\ E[IF order_update_handler THEN 5 ELSE 3].pair = next.pair
                 /\ E[IF order_update_handler THEN 5 ELSE 3].quantity
                       = QuantityFor(next, amount)
                 /\ current_order'.status = "OPEN"
                 /\ current_order'.pair = next.pair
                 /\ current_order'.quantity = QuantityFor(next, amount)
           /\ ~more =>
                 /\ Len(E) = k + 1
                 /\ E[k + 1].ev = "pnl"
                 /\ current_order' = None]_vars

\* the update that completed the first leg, told the callback, and placed the
\* second leg with what the first acquired, which is not the initial amount
C24_Witness ==
    /\ last.op = "update"
    /\ last.raised = "none"
    /\ order_update_handler
    /\ Len(last.events) = 6
    /\ last.events[3].ev = "callback"
    /\ last.events[3].order.status = "COMPLETED"
    /\ last.events[3].acquired_amount = current_acquired_amount
    /\ last.events[5].ev = "place"
    /\ cur_pair_idx = 2
    /\ current_acquired_amount # initial_amount
    /\ current_order.status = "OPEN"

\* the status query that fault f fails is made by an update called now
QueryFails(f) ==
    /\ ~paper_trading
    /\ current_order # None
    /\ current_order.exch_order_id # -1
    /\ f.nth = 1
    /\ \/ f.call = "get_user_open_orders"
       \/ /\ f.call = "get_order_trades"
          /\ exch_orders[current_order.exch_order_id].state # "open"

\* C25: when get_user_open_orders or get_order_trades fails inside update(),
\* the error leaves update(), the current order is still the same OPEN order,
\* leg, leg index and acquired amount are unchanged, the callback is not
\* invoked and nothing is placed; and an update called with an order at the
\* exchange begins by querying the open orders, so the order is queried again.
C25_QueryErrorPropagates ==
    [][/\ \A f \in QueryFaults :
             (QueryFails(f) /\ CallUpdate(f)) =>
                /\ last'.raised = f.kind
                /\ TraderState' = TraderState
                /\ current_order'.status = "OPEN"
                /\ cb_log' = cb_log
                /\ triarb_order' = triarb_order
                /\ exch_orders' = exch_orders
                /\ EventsOf(last'.events, "place") = <<>>
                /\ EventsOf(last'.events, "callback") = <<>>
       /\ \A f \in TraderFaults :
             (/\ ~paper_trading
              /\ current_order # None
              /\ current_order.exch_order_id # -1
              /\ CallUpdate(f)) =>
                last'.events[1].ev = "get_user_open_orders"]_vars

\* an update in which get_order_trades failed for an order that had been
\* executed: the order is still OPEN on the second leg
C25_Witness ==
    /\ last.op = "update"
    /\ last.raised \in {"ExmoError", "OSError"}
    /\ Len(last.events) = 2
    /\ last.events[2].ev = "get_order_trades"
    /\ OrderAtExchange("filled")
    /\ current_order.status = "OPEN"
    /\ cur_pair_idx = 2

\* the positions of the events of one kind among a call's events
Positions(events, name) == {j \in DOMAIN events : events[j].ev = name}

\* C26: in every tick each indicator update (and the ticker fetch and every
\* signal) comes before Trader.update(); Trader.update() is invoked once in a
\* tick that raises no error and never more than once; a tick that starts
\* with a loop in progress fetches no tickers, updates no indicator and emits
\* no signal, and a tick that starts without one and raises no error fetches
\* the tickers once and updates every indicator once, in the order of the
\* quote currencies.
C26_TickOrder ==
    [][last'.op = "tick" =>
        LET E == last'.events
            U == Positions(E, "trader_update")
        IN /\ Cardinality(U) <= 1
           /\ last'.raised = "none" => Cardinality(U) = 1
           /\ \A u \in U :
                 \A j \in Positions(E, "get_ticker") \cup Positions(E, "scan")
                          \cup Positions(E, "signal") \cup Positions(E, "start_arb_loop")
                          \cup Positions(E, "get_order_book") : j < u
           /\ current_order # None =>
                 /\ Positions(E, "get_ticker") = {}
                 /\ Positions(E, "scan") = {}
                 /\ Positions(E, "signal") = {}
                 /\ E[1].ev = "trader_update"
                 /\ arb_opps' = arb_opps
                 /\ triarb_opportunity' = triarb_opportunity
           /\ (current_order = None /\ last'.raised = "none") =>
                 /\ E[1].ev = "get_ticker"
                 /\ Positions(E, "get_ticker") = {1}
                 /\ Cardinality(Positions(E, "scan")) = Len(QUOTE_CURRS)
                 /\ \A i \in DOMAIN QUOTE_CURRS :
                       \E j \in Positions(E, "scan") :
                          /\ E[j].quote_curr = QUOTE_CURRS[i]
                          /\ Cardinality({m \in Positions(E, "scan") : m < j}) = i - 1]_vars

\* a tick that started without a loop: an indicator signalled, the loop was
\* started, and Trader.update() then queried the new order
C26_Witness ==
    /\ last.op = "tick"
    /\ last.raised = "none"
    /\ \E s \in Positions(last.events, "signal"), u \in Positions(last.events, "trader_update") :
          /\ s < u
          /\ u < Len(last.events)
          /\ last.events[u + 1].ev = "get_user_open_orders"
    /\ current_order # None

\* C28: the leg index cur_pair_idx is 0 whenever no loop is in progress,
\* otherwise it is the position (1, 2 or 3) of the current order's leg among
\* the legs of the round; it never exceeds 3.
C28_LegIndex ==
    /\ cur_pair_idx <= 3
    /\ current_order = None => cur_pair_idx = 0
    /\ current_order # None =>
          /\ cur_pair_idx \in 1..3
          /\ cur_pair_idx = pairs_iter.idx
          /\ pairs_iter.seq[cur_pair_idx] = current_pair

\* the trader holds an order whose submission was rejected
HoldsRejected ==
    /\ current_order # None
    /\ current_order.status = "PLACING"

\* C29: after a submission raises inside _place_order the current order is
\* in status PLACING with exchange id -1 and the loop counts as in progress; the
\* next update, whatever the exchange would answer, sets the current order to
\* none without error, without a query to the exchange and without a call of
\* the callback, whose last record of that order is the PLACING one; and a
\* start_arb_loop made after that is accepted and opens leg 1 of a new round,
\* also when the rejected leg was the second or third.
C29_RejectedSubmission ==
    [][/\ SubmissionRejected' =>
            /\ current_order' # None
            /\ current_order'.status = "PLACING"
            /\ current_order'.exch_order_id = -1
            /\ is_loop_in_progress([current_order |-> current_order'])
            /\ order_update_handler =>
                  /\ cb_log'[Len(cb_log')].status = "PLACING"
                  /\ [cb_log'[Len(cb_log')] EXCEPT !.id = current_order'.id] = current_order'
       /\ \A fault \in TraderFaults :
            (HoldsRejected /\ CallUpdate(fault)) =>
                /\ last'.raised = "none"
                /\ last'.events = <<>>
                /\ current_order' = None
                /\ cb_log' = cb_log
                /\ exch_orders' = exch_orders
                /\ order_update_handler =>
                      /\ cb_log'[Len(cb_log')].status = "PLACING"
                      /\ [cb_log'[Len(cb_log')] EXCEPT !.id = current_order.id] = current_order
       /\ \A args \in StartArgs(order_type) :
            (/\ current_order = None
             /\ cur_pair_idx > 0
             /\ CallStartArbLoop(args, NoFault)) =>
                /\ current_order' # None
                /\ current_order'.status = "OPEN"
                /\ pairs_iter'.idx = 1
                /\ current_pair' = args[1][1]
                /\ current_acquired_amount' = args[3]]_vars

\* a new round has its first order open after the second leg of the round
\* before was rejected and dropped, its first leg filled
C29_Witness ==
    /\ current_order # None
    /\ current_order.status = "OPEN"
    /\ pairs_iter.idx = 1
    /\ cur_pair_idx = 3
    /\ Len(exch_orders) = 2
    /\ exch_orders[1].state = "filled"
    /\ last.op = "start_arb_loop"

\* C30: an update that finds the current order neither among the open orders
\* nor in the trades raises and leaves the trader as it was: the same OPEN
\* order, loop in progress, leg, leg index, leg iterator, acquired amount and
\* currency unchanged, no callback, nothing placed. While the exchange reports
\* the order so, start_arb_loop is a no-op and an update raises again: after
\* the error the order is still in that condition at the exchange.
C30_VanishedLeavesState ==
    [][/\ (OrderAtExchange("gone") /\ CallUpdate(NoFault)) =>
            /\ last'.raised = "Exception"
            /\ [i \in 1..Len(last'.events) |-> last'.events[i].ev] =
                    <<"get_user_open_orders", "get_order_trades">>
            /\ TraderState' = TraderState
            /\ current_order'.status = "OPEN"
            /\ is_loop_in_progress([current_order |-> current_order'])
            /\ cb_log' = cb_log
            /\ triarb_order' = triarb_order
            /\ exch_orders' = exch_orders
            /\ OrderAtExchange("gone")'
       /\ \A args \in StartArgs(order_type), fault \in TraderFaults :
            (OrderAtExchange("gone") /\ CallStartArbLoop(args, fault)) =>
                /\ last'.raised = "none"
                /\ EventsOf(last'.events, "place") = <<>>
                /\ EventsOf(last'.events, "callback") = <<>>
                /\ TraderState' = TraderState
                /\ cb_log' = cb_log
                /\ exch_orders' = exch_orders
                /\ OrderAtExchange("gone")'
       /\ (last'.op = "update" /\ last'.raised = "Exception") =>
            /\ OrderAtExchange("gone")
            /\ OrderAtExchange("gone")']_vars

\* an update has just raised for the second leg's order, which the exchange
\* reports neither open nor traded; the order is still the current one
C30_Witness ==
    /\ last.op = "update"
    /\ last.raised = "Exception"
    /\ OrderAtExchange("gone")
    /\ current_order.status = "OPEN"
    /\ cur_pair_idx = 2

\* the callback's COMPLETED records of the round opp_id
CompletedLegs(log, opp_id) ==
    SelectSeq(log, LAMBDA o : o.status = "COMPLETED" /\ o.triarb_opportunity_id = opp_id)

\* C27: polled fairly in non-simulation mode, with every exchange call
\* succeeding and every open order executed in the end, a loop in progress
\* always comes to the state where is_loop_in_progress() is false; and
\* whenever a loop does come to that state, its three legs were COMPLETED, one
\* after the other, and the round's result was computed.
C27_LoopCompletes ==
    /\ (runner = "polling" /\ current_order # None) ~> (current_order = None)
    /\ [][(current_order # None /\ current_order' = None) =>
            /\ pairs_iter.idx = 3
            /\ cur_pair_idx' = 0
            /\ EventsOf(last'.events, "pnl") # <<>>
            /\ LET legs == CompletedLegs(cb_log', triarb_opp_id)
               IN /\ Len(legs) = 3
                  /\ \A i \in 1..3 : legs[i].pair = pairs_iter.seq[i].pair]_vars

\* a round ran through its three legs and the trader is idle again
C27_Witness ==
    /\ runner = "polling"
    /\ current_order = None
    /\ loops >= 1
    /\ EventsOf(last.events, "pnl") # <<>>
    /\ Len(CompletedLegs(cb_log, triarb_opp_id)) = 3

====
